---------------------------- MODULE Spec2Model ----------------------------
(***************************************************************************)
(* A model of smart-term: the argument parser, the configuration loader,   *)
(* the file handler, the Perplexity provider, the output formatter and the *)
(* orchestration in main.py (main / execute_query).                        *)
(*                                                                         *)
(* Strings that the code inspects character by character (command-line     *)
(* tokens, paths, the query) are sequences of one-character strings.       *)
(* Strings the code only passes around or compares as a whole (model       *)
(* names, exception class names, message texts) are TLA+ strings.          *)
(***************************************************************************)
EXTENDS Integers, Sequences, FiniteSets, TLC

VARIABLES
    pc,          \* position in main / execute_query
    args,        \* sys.argv[1:]
    fs,          \* paths that are regular files when parse runs
    env,         \* PERPLEXITY_API_KEY: "unset", "empty" or "set"
    cfgFile,     \* the user configuration file ~/.ai_cli_config.json
    config,      \* the dict returned by load_config
    parsed,      \* the ParsedArguments returned by parse
    fileContent, \* the FileContent returned by read_file, or NoFile
    readerCalls, \* the kind-specific readers invoked, in order
    response,    \* the value returned by send_query (a sequence of atoms)
    showArg,     \* the show_sources argument display_response is called with
    spinner,     \* "idle", "running" or "stopped"
    frames,      \* what the formatter printed, in order
    httpLog,     \* the HTTP requests issued, in order
    stderr,      \* warnings printed to standard error, in order
    disk,        \* the attached file as read_file finds it
    http,        \* what requests.post did, or NoOutcome before the request
    raised,      \* the exception in flight or last handled, or NoExc
    site,        \* the try block of execute_query the exception was raised in
    ret,         \* the value execute_query returned, or NoRet
    exitCode,    \* the value main returned, or NoRet
    sigint       \* whether a KeyboardInterrupt was raised in this run

vars == <<pc, args, fs, env, cfgFile, config, parsed, fileContent, readerCalls,
          response, showArg, spinner, frames, httpLog, stderr, disk, http,
          raised, site, ret, exitCode, sigint>>

-----------------------------------------------------------------------------
(* Bounds of the model *)

\* longest argument list given to parse on its own
MaxArgs == 3
\* longest argument list given to a whole run of main
MaxRunArgs == 2
\* longest response (in atoms) given to display_response on its own
MaxRespLen == 4

-----------------------------------------------------------------------------
(* Characters and strings *)

Uppers == <<"A","B","C","D","E","F","G","H","I","J","K","L","M",
            "N","O","P","Q","R","S","T","U","V","W","X","Y","Z">>
Lowers == <<"a","b","c","d","e","f","g","h","i","j","k","l","m",
            "n","o","p","q","r","s","t","u","v","w","x","y","z">>

IsUpper(c) == \E i \in 1..Len(Uppers) : Uppers[i] = c
IsAlpha(c) == IsUpper(c) \/ \E i \in 1..Len(Lowers) : Lowers[i] = c

\* str.lower() on one character
LowerChar(c) ==
    IF IsUpper(c) THEN Lowers[CHOOSE i \in 1..Len(Uppers) : Uppers[i] = c] ELSE c

\* str.lower()
StrLower(s) == [i \in 1..Len(s) |-> LowerChar(s[i])]

\* s.startswith(p)
StartsWith(s, p) == Len(s) >= Len(p) /\ SubSeq(s, 1, Len(p)) = p

\* s[n:] (0-based n)
Drop(s, n) == IF n >= Len(s) THEN <<>> ELSE SubSeq(s, n + 1, Len(s))

\* sep.join(parts)
RECURSIVE StrJoin(_, _)
StrJoin(sep, parts) ==
    IF parts = <<>> THEN <<>>
    ELSE IF Len(parts) = 1 THEN parts[1]
    ELSE parts[1] \o sep \o StrJoin(sep, Tail(parts))

-----------------------------------------------------------------------------
(* Command-line tokens *)

tk_s        == <<"-","-","s">>
tk_P        == <<"-","-","P">>
tk_r        == <<"-","-","r">>
tk_deep     == <<"-","-","d","e","e","p">>
tk_DeeP     == <<"-","-","D","e","e","P">>
tk_show_s   == <<"-","-","s","h","o","w","-","s">>
tk_Show_Src == <<"-","-","S","h","o","w","-","s","o","u","r","c","e">>
tk_show_srcs == <<"-","-","s","h","o","w","-","s","o","u","r","c","e","s">>
tk_x        == <<"-","-","x">>
tk_x1       == <<"-","-","x","1">>
tk_help     == <<"-","-","h","e","l","p">>
tk_hi       == <<"h","i">>
tk_two      == <<"a"," ","b">>
tk_empty    == <<>>
tk_file     == <<"f",".","t","x","t">>
tk_home     == <<"~","/","f",".","m","d">>
tk_pdf      == <<"d",".","P","D","F">>
tk_png      == <<"i",".","p","n","g">>
tk_bin      == <<"x",".","b","i","n">>
tk_noext    == <<"R","E","A","D","M","E">>
tk_hidden   == <<".","t","x","t">>

\* the home directory that os.path.expanduser substitutes for a leading "~"
Home == <<"/","h">>

\* os.path.expanduser: "~" and "~/..." get the home directory; "~user" names a
\* user the password database does not know and is returned unchanged.
expanduser(path) ==
    IF ~StartsWith(path, <<"~">>) THEN path
    ELSE IF Len(path) = 1 THEN Home
    ELSE IF path[2] = "/" THEN Home \o Drop(path, 1)
    ELSE path

\* file_path is a str or None and is only tested by truthiness; the empty
\* path never names a file, so the empty sequence stands for None.
NoPath == <<>>

-----------------------------------------------------------------------------
(* JSON / Python values held in the configuration *)

Str(x)  == [t |-> "str",  s |-> x]
Num(x)  == [t |-> "num",  n |-> x]
Bool(x) == [t |-> "bool", b |-> x]

\* isinstance(v, (int, float)): bool is a subclass of int
IsNumber(v) == v.t \in {"num", "bool"}

\* the number a numeric value compares as (True is 1, False is 0)
NumVal(v) == IF v.t = "bool" THEN (IF v.b THEN 1 ELSE 0) ELSE v.n

\* isinstance(v, bool)
IsBool(v) == v.t = "bool"

\* v in [s1, s2, ...] for a list of str
InStrList(v, list) == v.t = "str" /\ v.s \in list

\* bool(v)
Truthy(v) ==
    CASE v.t = "str"  -> v.s # ""
      [] v.t = "num"  -> v.n # 0
      [] v.t = "bool" -> v.b

\* d.get(k, dflt)
Get(d, k, dflt) == IF k \in DOMAIN d THEN d[k] ELSE dflt

\* d.update(u) on a copy of d
DictUpdate(d, u) ==
    [k \in (DOMAIN d) \cup (DOMAIN u) |-> IF k \in DOMAIN u THEN u[k] ELSE d[k]]

-----------------------------------------------------------------------------
(* cli/parser.py *)

MODEL_FLAGS == <<
    [flag |-> <<"-","-","s">>,             model |-> "sonar"],
    [flag |-> <<"-","-","p">>,             model |-> "sonar-pro"],
    [flag |-> <<"-","-","r">>,             model |-> "sonar-reasoning-pro"],
    [flag |-> <<"-","-","d","e","e","p">>, model |-> "sonar-deep-research"] >>

\* arg_lower in self.MODEL_FLAGS
InModelFlags(a) == \E i \in 1..Len(MODEL_FLAGS) : MODEL_FLAGS[i].flag = a

\* self.MODEL_FLAGS[arg_lower]
ModelOfFlag(a) ==
    MODEL_FLAGS[CHOOSE i \in 1..Len(MODEL_FLAGS) : MODEL_FLAGS[i].flag = a].model

source_flags == { <<"-","-","s","h","o","w","-","s","o","u","r","c","e","s">>,
                  <<"-","-","s","h","o","w","-","s","o","u","r","c","e">>,
                  <<"-","-","s","h","o","w","-","s">> }

\* model is a str or None; every model name is non-empty
NoModel == "None"

\* os.path.isfile(path) when parse runs
isfile(path, files) == path \in files

\* a parser that takes token 0 for the file path without looking for the file
detect_file_path_unchecked(a, files) ==
    IF a = <<>> THEN [file_path |-> NoPath, remaining |-> a]
    ELSE [file_path |-> expanduser(a[1]), remaining |-> Drop(a, 1)]

detect_file_path_first_existing(a, files) ==
    IF \E i \in 1..Len(a) : isfile(expanduser(a[i]), files)
    THEN LET i == CHOOSE k \in 1..Len(a) :
                    /\ isfile(expanduser(a[k]), files)
                    /\ \A j \in 1..(k - 1) : ~isfile(expanduser(a[j]), files)
         IN [file_path |-> expanduser(a[i]),
             remaining |-> SubSeq(a, 1, i - 1) \o Drop(a, i)]
    ELSE [file_path |-> NoPath, remaining |-> a]

detect_file_path(a, files) ==
    IF a = <<>> THEN [file_path |-> NoPath, remaining |-> a]
    ELSE LET expanded_path == expanduser(a[1])
         IN IF isfile(expanded_path, files)
            THEN [file_path |-> expanded_path, remaining |-> Drop(a, 1)]
            ELSE [file_path |-> NoPath, remaining |-> a]

LooksLikeFlag_letters_only(arg) ==
    /\ StartsWith(arg, <<"-","-">>)
    /\ Len(arg) >= 3 /\ Len(arg) <= 7
    /\ \A i \in 3..Len(arg) : IsAlpha(arg[i])

\* arg.startswith('--') and arg[2:3].isalpha() and len(arg) <= 7
LooksLikeFlag(arg) ==
    /\ StartsWith(arg, <<"-","-">>)
    /\ Len(arg) >= 3 /\ IsAlpha(arg[3])
    /\ Len(arg) <= 7

\* one iteration of the for loop of extract_model_flag
ModelFlagStep(st, arg) ==
    LET arg_lower == StrLower(arg)
    IN IF InModelFlags(arg_lower)
       THEN [st EXCEPT !.model = ModelOfFlag(arg_lower),
                       !.found = Append(@, arg_lower)]
       ELSE IF LooksLikeFlag(arg)
       THEN [st EXCEPT !.remaining = Append(@, arg),
                       !.warn = IF ~InModelFlags(arg_lower) /\ arg_lower \notin source_flags
                                THEN Append(@, [kind |-> "unknown_flag", arg |-> arg])
                                ELSE @]
       ELSE [st EXCEPT !.remaining = Append(@, arg)]

RECURSIVE ModelFlagLoop(_, _)
ModelFlagLoop(st, a) ==
    IF a = <<>> THEN st ELSE ModelFlagLoop(ModelFlagStep(st, a[1]), Tail(a))

extract_model_flag_first_wins(a) ==
    LET st == ModelFlagLoop([model |-> NoModel, remaining |-> <<>>,
                             found |-> <<>>, warn |-> <<>>], a)
    IN [model |-> IF st.found = <<>> THEN NoModel ELSE ModelOfFlag(st.found[1]),
        remaining |-> st.remaining,
        warn |-> st.warn]

extract_model_flag(a) ==
    LET st == ModelFlagLoop([model |-> NoModel, remaining |-> <<>>,
                             found |-> <<>>, warn |-> <<>>], a)
    IN [model |-> st.model,
        remaining |-> st.remaining,
        warn |-> IF Len(st.found) > 1
                 THEN Append(st.warn, [kind |-> "multiple_flags", found |-> st.found])
                 ELSE st.warn]

RECURSIVE SourcesFlagLoop(_, _)
SourcesFlagLoop(st, a) ==
    IF a = <<>> THEN st
    ELSE SourcesFlagLoop(
            IF StrLower(a[1]) \in source_flags
            THEN [st EXCEPT !.show_sources = TRUE]
            ELSE [st EXCEPT !.remaining = Append(@, a[1])],
            Tail(a))

extract_sources_flag(a) ==
    SourcesFlagLoop([show_sources |-> FALSE, remaining |-> <<>>], a)

build_query_drops_empty(a) == StrJoin(<<" ">>, SelectSeq(a, LAMBDA t : t # <<>>))

\* build_query(args)
build_query(a) == StrJoin(<<" ">>, a)

\* ArgumentParser(default_model, default_provider).parse(args); the defaults
\* are configuration values, warn is what the call printed to standard error
parse(a, files, default_model, default_provider) ==
    LET d == detect_file_path(a, files)
        m == extract_model_flag(d.remaining)
        s == extract_sources_flag(m.remaining)
    IN [query        |-> build_query(s.remaining),
        file_path    |-> d.file_path,
        model        |-> IF m.model # NoModel THEN Str(m.model) ELSE default_model,
        provider     |-> default_provider,
        show_sources |-> s.show_sources,
        warn         |-> m.warn]

-----------------------------------------------------------------------------
(* config/defaults.py, config/loader.py *)

DEFAULT_CONFIG ==
    [default_model           |-> Str("sonar"),
     default_provider        |-> Str("perplexity"),
     timeout                 |-> Num(30),
     max_file_size_mb        |-> Num(10),
     output_format           |-> Str("markdown"),
     show_thinking_animation |-> Bool(TRUE),
     log_level               |-> Str("INFO")]

\* validate_config(user_config); file.kind = "dict" is isinstance(config, dict)
validate_config(file) ==
    IF file.kind # "dict" THEN FALSE
    ELSE LET c == file.data
         IN IF "timeout" \in DOMAIN c
               /\ (~IsNumber(c["timeout"]) \/ NumVal(c["timeout"]) <= 0)
            THEN FALSE
            ELSE IF "max_file_size_mb" \in DOMAIN c
               /\ (~IsNumber(c["max_file_size_mb"]) \/ NumVal(c["max_file_size_mb"]) <= 0)
            THEN FALSE
            ELSE IF "show_thinking_animation" \in DOMAIN c
               /\ ~IsBool(c["show_thinking_animation"])
            THEN FALSE
            ELSE IF "log_level" \in DOMAIN c
               /\ ~InStrList(c["log_level"],
                             {"DEBUG", "INFO", "WARNING", "ERROR", "CRITICAL"})
            THEN FALSE
            ELSE IF "output_format" \in DOMAIN c
               /\ ~InStrList(c["output_format"], {"markdown", "plain"})
            THEN FALSE
            ELSE TRUE

merge_with_defaults(user_config) == DictUpdate(DEFAULT_CONFIG, user_config)

\* load_config(): the user file is absent, cannot be opened ("unreadable"),
\* is not JSON ("badjson"), is JSON but no object ("notdict"), or is a JSON
\* object ("dict") with the members file.data.  Every failure is caught
\* inside load_config and answered with the defaults.
load_config(file) ==
    CASE file.kind = "absent"     -> DEFAULT_CONFIG
      [] file.kind = "unreadable" -> DEFAULT_CONFIG
      [] file.kind = "badjson"    -> DEFAULT_CONFIG
      [] OTHER -> IF ~validate_config(file) THEN DEFAULT_CONFIG
                  ELSE merge_with_defaults(file.data)

-----------------------------------------------------------------------------
(* User configuration files *)

NoData == [k \in {} |-> Str("")]

AbsentFile     == [kind |-> "absent",     data |-> NoData]
UnreadableFile == [kind |-> "unreadable", data |-> NoData]
BadJsonFile    == [kind |-> "badjson",    data |-> NoData]
NotDictFile    == [kind |-> "notdict",    data |-> NoData]

RecognizedKeys == {"default_model", "default_provider", "timeout",
                   "max_file_size_mb", "output_format",
                   "show_thinking_animation", "log_level"}

\* the values a user file may give a key: choice 1 is a valid value, choice 2
\* an invalid one (choice 0: the key is missing)
Candidate(k, c) ==
    CASE k = "default_model"           -> IF c = 1 THEN Str("sonar-pro") ELSE Num(4)
      [] k = "default_provider"        -> IF c = 1 THEN Str("perplexity") ELSE Str("gemini")
      [] k = "timeout"                 -> IF c = 1 THEN Num(5) ELSE Num(0)
      [] k = "max_file_size_mb"        -> IF c = 1 THEN Num(1) ELSE Str("big")
      [] k = "output_format"           -> IF c = 1 THEN Str("plain") ELSE Str("html")
      [] k = "show_thinking_animation" -> IF c = 1 THEN Bool(FALSE) ELSE Str("no")
      [] k = "log_level"               -> IF c = 1 THEN Str("DEBUG") ELSE Str("TRACE")
      [] k = "editor"                  -> Str("vi")
      [] k = "perplexity_base_url"     ->
            IF c = 1 THEN Str(<<"http://localhost:8080", "/">>)
            ELSE Str(<<"https://api.perplexity.ai", "/">>)

\* the JSON object that gives each key of DOMAIN choice its chosen candidate
DictFile(choice) ==
    [kind |-> "dict",
     data |-> [k \in {key \in DOMAIN choice : choice[key] # 0} |->
                    Candidate(k, choice[k])]]

\* the keys of a user file that the specification does not list
UnknownKeys == {"editor", "perplexity_base_url"}

\* every JSON object over the recognized keys and the unknown ones
DictFiles ==
    { DictFile(ch) : ch \in [RecognizedKeys \cup UnknownKeys -> {0, 1, 2}] }

-----------------------------------------------------------------------------
(* files/handler.py and the readers *)

SUPPORTED_EXTENSIONS == <<
    [ext |-> <<".","t","x","t">>,         type |-> "text"],
    [ext |-> <<".","m","d">>,             type |-> "text"],
    [ext |-> <<".","p","y">>,             type |-> "text"],
    [ext |-> <<".","j","s">>,             type |-> "text"],
    [ext |-> <<".","j","s","o","n">>,     type |-> "text"],
    [ext |-> <<".","y","a","m","l">>,     type |-> "text"],
    [ext |-> <<".","y","m","l">>,         type |-> "text"],
    [ext |-> <<".","s","h">>,             type |-> "text"],
    [ext |-> <<".","h","t","m","l">>,     type |-> "text"],
    [ext |-> <<".","c","s","s">>,         type |-> "text"],
    [ext |-> <<".","x","m","l">>,         type |-> "text"],
    [ext |-> <<".","c","s","v">>,         type |-> "text"],
    [ext |-> <<".","l","o","g">>,         type |-> "text"],
    [ext |-> <<".","i","n","i">>,         type |-> "text"],
    [ext |-> <<".","c","f","g">>,         type |-> "text"],
    [ext |-> <<".","c","o","n","f">>,     type |-> "text"],
    [ext |-> <<".","r","s">>,             type |-> "text"],
    [ext |-> <<".","g","o">>,             type |-> "text"],
    [ext |-> <<".","j","a","v","a">>,     type |-> "text"],
    [ext |-> <<".","c","p","p">>,         type |-> "text"],
    [ext |-> <<".","c">>,                 type |-> "text"],
    [ext |-> <<".","h">>,                 type |-> "text"],
    [ext |-> <<".","t","s">>,             type |-> "text"],
    [ext |-> <<".","t","s","x">>,         type |-> "text"],
    [ext |-> <<".","j","s","x">>,         type |-> "text"],
    [ext |-> <<".","p","d","f">>,         type |-> "pdf"],
    [ext |-> <<".","p","n","g">>,         type |-> "image"],
    [ext |-> <<".","j","p","g">>,         type |-> "image"],
    [ext |-> <<".","j","p","e","g">>,     type |-> "image"],
    [ext |-> <<".","g","i","f">>,         type |-> "image"],
    [ext |-> <<".","w","e","b","p">>,     type |-> "image"],
    [ext |-> <<".","b","m","p">>,         type |-> "image"] >>

\* extension in self.SUPPORTED_EXTENSIONS
InSupported(e) ==
    \E i \in 1..Len(SUPPORTED_EXTENSIONS) : SUPPORTED_EXTENSIONS[i].ext = e

\* self.SUPPORTED_EXTENSIONS[extension]
TypeOfExt(e) ==
    SUPPORTED_EXTENSIONS[CHOOSE i \in 1..Len(SUPPORTED_EXTENSIONS) :
                            SUPPORTED_EXTENSIONS[i].ext = e].type

\* s.rfind(c) as a 1-based index, 0 when c does not occur
RFind(s, c) ==
    IF \E i \in 1..Len(s) : s[i] = c
    THEN CHOOSE i \in 1..Len(s) : s[i] = c /\ \A j \in (i + 1)..Len(s) : s[j] # c
    ELSE 0

\* Path(file_path).name
PathName(path) == Drop(path, RFind(path, "/"))

\* Path(file_path).suffix: the last dot of the name, unless it starts or
\* ends the name
PathSuffix(path) ==
    LET name == PathName(path)
        i    == RFind(name, ".")
    IN IF 1 < i /\ i < Len(name) THEN Drop(name, i - 1) ELSE <<>>

\* exceptions: the class name and the message
Exc(cls, msg) == [cls |-> cls, msg |-> msg]
NoExc == [cls |-> "None", msg |-> [id |-> "none"]]
Msg(id) == [id |-> id]

\* bytes in a megabyte, as validate_file_size counts them
MB == 1024 * 1024

\* the file sizes tried, in bytes
FileSizes == {0, MB, MB + 1, 10 * MB, 10 * MB + 1}

\* the code point order of the characters of the extensions
CharCode(c) == IF c = "." THEN 0 ELSE CHOOSE i \in 1..Len(Lowers) : Lowers[i] = c

\* a < b for two strings
StrBefore(a, b) ==
    \/ Len(a) < Len(b) /\ SubSeq(b, 1, Len(a)) = a
    \/ \E i \in 1..Len(a) :
         /\ i <= Len(b)
         /\ SubSeq(a, 1, i - 1) = SubSeq(b, 1, i - 1)
         /\ CharCode(a[i]) < CharCode(b[i])

\* sorted(S)
RECURSIVE sorted(_)
sorted(S) ==
    IF S = {} THEN <<>>
    ELSE LET m == CHOOSE x \in S : \A y \in S \ {x} : StrBefore(x, y)
         IN <<m>> \o sorted(S \ {m})

\* set(self.SUPPORTED_EXTENSIONS.keys())
ExtensionKeys == { SUPPORTED_EXTENSIONS[i].ext : i \in 1..Len(SUPPORTED_EXTENSIONS) }

\* the extensions as the table lists them
supported_list_in_table_order ==
    StrJoin(<<", ">>, [i \in 1..Len(SUPPORTED_EXTENSIONS) |-> SUPPORTED_EXTENSIONS[i].ext])

\* supported_list = ', '.join(sorted(set(self.SUPPORTED_EXTENSIONS.keys())))
supported_list == StrJoin(<<", ">>, sorted(ExtensionKeys))

\* raise UnsupportedFileTypeError(f"Unsupported file type: {extension}. "
\*                                f"Supported types: {supported_list}")
UnsupportedFileType(path) ==
    Exc("UnsupportedFileTypeError",
        [id |-> "Unsupported file type", extension |-> StrLower(PathSuffix(path)),
         supported |-> supported_list])

\* detect_file_type(file_path): the type, or "unsupported" for the raise
detect_file_type(path) ==
    LET extension == StrLower(PathSuffix(path))
    IN IF ~InSupported(extension) THEN "unsupported" ELSE TypeOfExt(extension)

\* the exception a kind-specific reader raises on bytes it cannot take
ReaderError(type) ==
    CASE type = "text"  -> Exc("UnicodeDecodeError", Msg("invalid utf-8"))
      [] type = "pdf"   -> Exc("PdfReadError", Msg("invalid pdf"))
      [] type = "image" -> Exc("UnidentifiedImageError", Msg("cannot identify image"))

\* no FileContent (None)
NoFile == [type |-> "none", content |-> <<>>, metadata |-> [size_bytes |-> 0],
           file_path |-> NoPath]

\* TextReader.read: the decoded text of the file
TextReader_read(content, size) ==
    [content |-> content, metadata |-> [encoding |-> "utf-8", size_bytes |-> size]]

\* what the PDF reader puts between the texts of two pages
PAGE_BREAK == "\n\n--- Page Break ---\n\n"

\* if page_text:
HasText(page_text) == page_text # <<>>

\* the same reader, keeping the pages without text as well
PDFReader_read_keeps_empty(pages, size) ==
    [content |-> StrJoin(<<PAGE_BREAK>>, pages),
     metadata |-> [page_count |-> Len(pages), size_bytes |-> size]]

\* PDFReader.read: pages holds page.extract_text() of each page of the
\* file, in order; the pages that gave text are joined with the page break
PDFReader_read(pages, size) ==
    [content |-> StrJoin(<<PAGE_BREAK>>, SelectSeq(pages, HasText)),
     metadata |-> [page_count |-> Len(pages), size_bytes |-> size]]

\* base64.b64encode(image_bytes).decode('utf-8') of the byte strings used
b64encode(bytes) ==
    CASE bytes = <<>> -> <<>>
      [] bytes = <<"text">> -> <<"dGV4dA==">>

\* ImageHandler.read (the format, mode and pixel size that PIL reports are
\* left out of the metadata)
ImageHandler_read(content, size) ==
    [content |-> b64encode(content), metadata |-> [size_bytes |-> size]]

\* the reader of each kind applied to the file
Reader(type, content, pages, size) ==
    CASE type = "text"  -> TextReader_read(content, size)
      [] type = "pdf"   -> PDFReader_read(pages, size)
      [] type = "image" -> ImageHandler_read(content, size)

\* the FileContent a reader returns
FileContentOf(type, r, path) ==
    [type |-> type, content |-> r.content, metadata |-> r.metadata, file_path |-> path]

\* validate_file_size(file_path): the exception raised, or NoExc
validate_file_size(path, max_size_mb, exists, size) ==
    IF ~exists THEN Exc("FileNotFoundError", Msg("File not found"))
    ELSE IF size > NumVal(max_size_mb) * 1024 * 1024
    THEN Exc("FileSizeExceededError", Msg("File size exceeds maximum"))
    ELSE NoExc

read_file_type_first(file_path, max_size_mb, exists, size, readable, content, pages) ==
    LET expanded_path == expanduser(file_path)
        type == detect_file_type(expanded_path)
        sizeExc == validate_file_size(expanded_path, max_size_mb, exists, size)
    IN IF type = "unsupported"
       THEN [exc |-> UnsupportedFileType(expanded_path),
             file |-> NoFile, readers |-> <<>>]
       ELSE IF sizeExc # NoExc
       THEN [exc |-> sizeExc, file |-> NoFile, readers |-> <<>>]
       ELSE IF ~readable
       THEN [exc |-> ReaderError(type), file |-> NoFile, readers |-> <<type>>]
       ELSE [exc |-> NoExc,
             file |-> FileContentOf(type, Reader(type, content, pages, size), expanded_path),
             readers |-> <<type>>]

\* FileHandler(max_size_mb).read_file(file_path) on a file that exists or
\* not, has the given size, and whose bytes the reader of its kind can take
\* (readable) or not.  Returns the exception raised (or NoExc), the
\* FileContent and the readers that were invoked.
read_file(file_path, max_size_mb, exists, size, readable, content, pages) ==
    LET expanded_path == expanduser(file_path)
        sizeExc == validate_file_size(expanded_path, max_size_mb, exists, size)
        type == detect_file_type(expanded_path)
    IN IF sizeExc # NoExc
       THEN [exc |-> sizeExc, file |-> NoFile, readers |-> <<>>]
       ELSE IF type = "unsupported"
       THEN [exc |-> UnsupportedFileType(expanded_path),
             file |-> NoFile, readers |-> <<>>]
       ELSE IF ~readable
       THEN [exc |-> ReaderError(type), file |-> NoFile, readers |-> <<type>>]
       ELSE [exc |-> NoExc,
             file |-> FileContentOf(type, Reader(type, content, pages, size), expanded_path),
             readers |-> <<type>>]

-----------------------------------------------------------------------------
(* providers/factory.py, providers/perplexity.py *)

\* a URL is a sequence of pieces, "/" a piece of its own
DefaultBaseUrl == <<"https://api.perplexity.ai">>

\* base_url.rstrip('/')
RECURSIVE RStripSlash(_)
RStripSlash(u) ==
    IF u # <<>> /\ u[Len(u)] = "/" THEN RStripSlash(SubSeq(u, 1, Len(u) - 1)) ELSE u

\* _create_perplexity_provider: config.get("perplexity_base_url", ...), and
\* PerplexityProvider.__init__: self.base_url
base_url(cfg) == RStripSlash(Get(cfg, "perplexity_base_url", Str(DefaultBaseUrl)).s)

\* endpoint = f"{self.base_url}/chat/completions"
Endpoint(cfg) == base_url(cfg) \o <<"/chat/completions">>

\* a factory that does not look for the API key
create_provider_without_key_check(provider_name, key) ==
    IF provider_name = Str("perplexity") THEN NoExc
    ELSE Exc("UnsupportedProviderError", Msg("provider is not supported"))

\* ProviderFactory.create_provider(provider_name, config) under the given
\* value of PERPLEXITY_API_KEY: the exception raised, or NoExc
create_provider(provider_name, key) ==
    IF provider_name = Str("perplexity")
    THEN IF key \in {"unset", "empty"}
         THEN Exc("MissingAPIKeyError", Msg("PERPLEXITY_API_KEY is not set; how to get and export it"))
         ELSE NoExc
    ELSE Exc("UnsupportedProviderError", Msg("provider is not supported"))

BuildMessages_pdf_as_text(query, file_content) ==
    IF file_content # NoFile
    THEN IF file_content.type = "image"
         THEN << [role |-> "user",
                  content |-> << [type |-> "text", text |-> query],
                                 [type |-> "image_url",
                                  image_url |-> [url |-> <<"data:image/jpeg;base64,">>
                                                           \o file_content.content]] >>] >>
         ELSE << [role |-> "user",
                  content |-> <<"File content from ">> \o file_content.file_path
                              \o <<":\n\n">> \o file_content.content \o <<"\n\n">> \o query] >>
    ELSE << [role |-> "user", content |-> query] >>

\* the messages list send_query builds.  A string built by an f-string is
\* the sequence of its pieces: the literal parts, the characters of the path
\* and of the query, and the file's content; the content of an image message
\* is the list of its two parts.
BuildMessages(query, file_content) ==
    IF file_content # NoFile
    THEN IF file_content.type = "text"
         THEN << [role |-> "user",
                  content |-> <<"File content from ">> \o file_content.file_path
                              \o <<":\n\n">> \o file_content.content \o <<"\n\n">> \o query] >>
         ELSE IF file_content.type = "image"
         THEN << [role |-> "user",
                  content |-> << [type |-> "text", text |-> query],
                                 [type |-> "image_url",
                                  image_url |-> [url |-> <<"data:image/jpeg;base64,">>
                                                           \o file_content.content]] >>] >>
         ELSE << [role |-> "user",
                  content |-> <<"Content from ">> \o file_content.file_path
                              \o <<":\n\n">> \o file_content.content \o <<"\n\n">> \o query] >>
    ELSE << [role |-> "user", content |-> query] >>

\* the request body
BuildPayload(query, model, file_content) ==
    [model |-> model, messages |-> BuildMessages(query, file_content)]

\* the call requests.post(endpoint, headers=headers, json=payload,
\* timeout=self.timeout) as the transport sees it
BuildRequest(query, model, file_content, timeout, endpoint) ==
    [url |-> endpoint, json |-> BuildPayload(query, model, file_content),
     timeout |-> timeout]

\* What requests.post can do.  A transport failure: "timeout",
\* "connect_timeout", "connection" or "other" (another RequestException).  Or a response with a status and
\* a body; the body is not JSON ("text"), or is JSON of one of these shapes:
\*   "answer"        {"choices": [{"message": {"content": <content>}}]}
\*   "no_choices"    {}
\*   "empty_choices" {"choices": []}
\*   "no_message"    {"choices": [{}]}
\*   "no_content"    {"choices": [{"message": {}}]}
\*   "error_field"   {"error": "e"}
\*   "list"          []
\*   "null"          null
Transport(kind) == [kind |-> kind, status |-> 0, body |-> "none", content |-> <<>>]
Reply(status, body, content) ==
    [kind |-> "response", status |-> status, body |-> body, content |-> content]

\* the part of the status message taken from the body of a failure response
StatusDetail(body) ==
    CASE body = "text"        -> "raw body"    \* response.json() raises
      [] body = "null"        -> "raw body"    \* 'error' in None raises
      [] body = "error_field" -> "error field"
      [] OTHER                -> "nothing"

\* The exceptions requests.post raises, by class: ReadTimeout ("timeout") is
\* a Timeout, ConnectTimeout ("connect_timeout") is a ConnectionError and a
\* Timeout, "connection" is another ConnectionError, "other" another
\* RequestException
IsTimeout(kind) == kind \in {"timeout", "connect_timeout"}
IsConnectionError(kind) == kind \in {"connection", "connect_timeout"}

ExceptClauses_connection_first(kind, timeout) ==
    IF IsConnectionError(kind) THEN Exc("APIError", Msg("Network error"))
    ELSE IF IsTimeout(kind)
    THEN Exc("APIError", [id |-> "Request timed out", seconds |-> timeout])
    ELSE Exc("APIError", Msg("Request failed"))

\* the except clauses of send_query, in their order, on an exception raised
\* by requests.post
ExceptClauses(kind, timeout) ==
    IF IsTimeout(kind)
    THEN Exc("APIError", [id |-> "Request timed out", seconds |-> timeout])
    ELSE IF IsConnectionError(kind) THEN Exc("APIError", Msg("Network error"))
    ELSE Exc("APIError", Msg("Request failed"))

\* self.timeout, set in PerplexityProvider.__init__
ProviderTimeout == 30

\* the try block of send_query on the outcome of requests.post: the exception
\* that leaves send_query (or NoExc) and the value returned.  response.json()
\* on a body that is not JSON raises requests.exceptions.JSONDecodeError, a
\* RequestException, which the last handler turns into an APIError.
send_query(outcome, timeout) ==
    CASE outcome.kind # "response" ->
            [exc |-> ExceptClauses(outcome.kind, timeout), value |-> <<>>]
      [] outcome.kind = "response" ->
            IF outcome.status = 401
            THEN [exc |-> Exc("APIError", Msg("Authentication failed")), value |-> <<>>]
            ELSE IF outcome.status = 429
            THEN [exc |-> Exc("APIError", Msg("Rate limit exceeded")), value |-> <<>>]
            ELSE IF outcome.status >= 400
            THEN [exc |-> Exc("APIError", [id |-> "API request failed with status",
                                           status |-> outcome.status,
                                           detail |-> StatusDetail(outcome.body)]),
                  value |-> <<>>]
            ELSE CASE outcome.body = "text" ->
                        [exc |-> Exc("APIError", Msg("Request failed")), value |-> <<>>]
                   [] outcome.body = "null" ->
                        [exc |-> Exc("TypeError", Msg("NoneType is not iterable")),
                         value |-> <<>>]
                   [] outcome.body \in {"no_choices", "empty_choices", "error_field", "list"} ->
                        [exc |-> Exc("APIError", Msg("Unexpected API response format")),
                         value |-> <<>>]
                   [] outcome.body = "no_message" ->
                        [exc |-> Exc("KeyError", Msg("message")), value |-> <<>>]
                   [] outcome.body = "no_content" ->
                        [exc |-> Exc("KeyError", Msg("content")), value |-> <<>>]
                   [] outcome.body = "answer" ->
                        [exc |-> NoExc, value |-> outcome.content]

\* send_query on a failure response (status >= 400, not 401 or 429) when
\* KeyboardInterrupt is raised inside the inner try, in response.json() or
\* the 'error' test: the bare except clause catches it, appends
\* response.text, and the APIError is raised as for any other failure
send_query_interrupted_in_detail(outcome, timeout) ==
    [exc |-> Exc("APIError", [id |-> "API request failed with status",
                              status |-> outcome.status,
                              detail |-> "raw body"]),
     value |-> <<>>]

-----------------------------------------------------------------------------
(* output/formatter.py *)

\* A response is a sequence of atoms: the two markers, and pieces of text
\* that contain no marker and no part of one.
CIT  == "__CITATIONS__"
WCIT == "__WITH_CITATIONS__"
Whitespace == {" ", "\n"}

\* sep in s
Contains(s, sep) == \E i \in 1..Len(s) : s[i] = sep

\* s.find(sep) as a 1-based index; sep occurs in s
Find(s, sep) == CHOOSE i \in 1..Len(s) : s[i] = sep /\ \A j \in 1..(i - 1) : s[j] # sep

\* s.split(sep)
RECURSIVE Split(_, _)
Split(s, sep) ==
    IF ~Contains(s, sep) THEN <<s>>
    ELSE <<SubSeq(s, 1, Find(s, sep) - 1)>> \o Split(Drop(s, Find(s, sep)), sep)

\* s.split(sep, 1)
SplitOnce(s, sep) ==
    IF ~Contains(s, sep) THEN <<s>>
    ELSE <<SubSeq(s, 1, Find(s, sep) - 1), Drop(s, Find(s, sep))>>

\* s.strip()
RECURSIVE LStrip(_)
LStrip(s) == IF s # <<>> /\ s[1] \in Whitespace THEN LStrip(Tail(s)) ELSE s
RECURSIVE RStrip(_)
RStrip(s) ==
    IF s # <<>> /\ s[Len(s)] \in Whitespace THEN RStrip(SubSeq(s, 1, Len(s) - 1)) ELSE s
Strip(s) == RStrip(LStrip(s))

ResponseFrame(model, body) == [kind |-> "response", model |-> model, body |-> body]

\* ----- _make_urls_clickable -----

Digits == {"0", "1", "2", "3", "4", "5", "6", "7", "8", "9"}

\* the last index of the longest run of elements of S in s that starts at i
\* (i - 1 when s[i] is not in S)
RunEnd(s, i, S) ==
    CHOOSE j \in (i - 1)..Len(s) :
        /\ \A k \in i..j : s[k] \in S
        /\ j = Len(s) \/ s[j + 1] \notin S

\* the same for the elements that are not in S
RunEndNot(s, i, S) ==
    CHOOSE j \in (i - 1)..Len(s) :
        /\ \A k \in i..j : s[k] \notin S
        /\ j = Len(s) \/ s[j + 1] \in S

\* s holds p at index i
HasAt(s, i, p) == i + Len(p) - 1 <= Len(s) /\ SubSeq(s, i, i + Len(p) - 1) = p

NoMatch == [ok |-> FALSE, number |-> <<>>, url |-> <<>>]

\* re.match(r'(\[\d+\])\s+(https?://[^\s]+)', line): the two groups
MatchCitation(line) ==
    IF ~HasAt(line, 1, <<"[">>) THEN NoMatch
    ELSE LET d == RunEnd(line, 2, Digits)
         IN IF d < 2 \/ ~HasAt(line, d + 1, <<"]">>) THEN NoMatch
            ELSE LET w == RunEnd(line, d + 2, Whitespace)
                     u == w + 1
                     slashes == IF HasAt(line, u, <<"h","t","t","p",":","/","/">>)
                                THEN u + 6
                                ELSE IF HasAt(line, u, <<"h","t","t","p","s",":","/","/">>)
                                THEN u + 7 ELSE 0
                 IN IF w < d + 2 \/ slashes = 0 THEN NoMatch
                    ELSE LET z == RunEndNot(line, slashes + 1, Whitespace)
                         IN IF z <= slashes THEN NoMatch
                            ELSE [ok |-> TRUE, number |-> SubSeq(line, 1, d + 1),
                                  url |-> SubSeq(line, u, z)]

\* urlparse(url) of a URL that MatchCitation accepted: the network location
\* runs from behind "//" to the first "/", "?" or "#", the path from there
\* to the first "?" or "#"; a location with one square bracket but not the
\* other is refused with ValueError
urlparse(url) ==
    LET start == Find(url, "/") + 2
        n == RunEndNot(url, start, {"/", "?", "#"})
        netloc == SubSeq(url, start, n)
        p == RunEndNot(url, n + 1, {"?", "#"})
    IN [failed |-> Contains(netloc, "[") # Contains(netloc, "]"),
        netloc |-> netloc, path |-> SubSeq(url, n + 1, p)]

\* s.replace('www.', '')
RECURSIVE RemoveWww(_)
RemoveWww(s) ==
    IF s = <<>> THEN <<>>
    ELSE IF HasAt(s, 1, <<"w","w","w",".">>) THEN RemoveWww(Drop(s, 4))
    ELSE <<s[1]>> \o RemoveWww(Tail(s))

\* the first non-empty part of path.split('/'), '' when there is none
FirstSegment(path) ==
    LET parts == Split(path, "/")
        full == { i \in 1..Len(parts) : parts[i] # <<>> }
    IN IF full = {} THEN <<>>
       ELSE parts[CHOOSE i \in full : \A j \in full : i <= j]

\* a display text that is cut to 60 characters before the dots are added
short_url_cut_at_60(u) ==
    LET domain == RemoveWww(u.netloc)
        path == FirstSegment(u.path)
        full == IF path # <<>> THEN domain \o <<"/">> \o path ELSE domain
    IN IF Len(full) > 60 THEN SubSeq(full, 1, 60) \o <<".", ".", ".">> ELSE full

\* the display text of a parsed URL: domain, or domain/path, cut to 57
\* characters and "..." when it has more than 60
short_url(u) ==
    LET domain == RemoveWww(u.netloc)
        path == FirstSegment(u.path)
        full == IF path # <<>> THEN domain \o <<"/">> \o path ELSE domain
    IN IF Len(full) > 60 THEN SubSeq(full, 1, 57) \o <<".", ".", ".">> ELSE full

\* text.append(text, style): one span of the Text object
Span(text, style) == [text |-> text, style |-> style]
Link(url) == [name |-> "link", url |-> url]
Plain == [name |-> "plain"]
BoldCyan == [name |-> "bold cyan"]

\* line.startswith('__'); a marker is one element of the sequence
StartsWithUnderscores(line) ==
    \/ line # <<>> /\ line[1] \in {CIT, WCIT}
    \/ HasAt(line, 1, <<"_", "_">>)

\* the spans one line of the citations adds; last: it is the last line
LineSpans(line, last) ==
    IF StartsWithUnderscores(line) THEN <<>>
    ELSE LET m == MatchCitation(line)
             body == IF m.ok
                     THEN IF urlparse(m.url).failed
                          THEN <<Span(line, Plain)>>
                          ELSE <<Span(m.number \o <<" ">>, BoldCyan),
                                 Span(short_url(urlparse(m.url)), Link(m.url))>>
                     ELSE IF Strip(line) # <<>> THEN <<Span(line, Plain)>> ELSE <<>>
         IN body \o (IF ~last /\ Strip(line) # <<>> THEN <<Span(<<"\n">>, Plain)>> ELSE <<>>)

RECURSIVE SpansFrom(_, _)
SpansFrom(lines, i) ==
    IF i > Len(lines) THEN <<>>
    ELSE LineSpans(lines[i], i = Len(lines)) \o SpansFrom(lines, i + 1)

\* _make_urls_clickable(citations): the spans of the Text it returns
make_urls_clickable(citations) == SpansFrom(Split(citations, "\n"), 1)

\* the Sources panel of the citations text
SourcesFrame(citations) ==
    [kind |-> "sources", citations |-> citations, text |-> make_urls_clickable(citations)]
ErrorFrame(etype, msg) == [kind |-> "error", etype |-> etype, msg |-> msg]
QueryFrame(query, file_info) == [kind |-> "query", query |-> query, file |-> file_info]

\* display_error(error)
display_error(e) == ErrorFrame(e.cls, e.msg)

\* the two panels of the citations branch of display_response
CitationPanels(pair, model, show_sources) ==
    <<ResponseFrame(model, Strip(pair[1]))>>
    \o (IF show_sources THEN <<SourcesFrame(Strip(pair[2]))>> ELSE <<>>)

ValueErrorUnpack == Exc("ValueError", Msg("not enough values to unpack"))

\* display_response(response, model, show_sources): the exception raised (or
\* NoExc) and the panels printed
display_response(resp, model, show_sources) ==
    IF Contains(resp, CIT)
    THEN IF Contains(resp, WCIT)
         THEN LET parts == Split(resp, WCIT)
                  clean_part == parts[1]
                  with_citations_part == IF Len(parts) > 1 THEN parts[2] ELSE clean_part
                  chosen == IF show_sources THEN with_citations_part ELSE clean_part
                  pair == SplitOnce(chosen, CIT)
              IN IF Len(pair) # 2
                 THEN [exc |-> ValueErrorUnpack, frames |-> <<>>]
                 ELSE [exc |-> NoExc, frames |-> CitationPanels(pair, model, show_sources)]
         ELSE [exc |-> NoExc,
               frames |-> CitationPanels(SplitOnce(resp, CIT), model, show_sources)]
    ELSE [exc |-> NoExc, frames |-> <<ResponseFrame(model, resp)>>]

-----------------------------------------------------------------------------
(* main.py: main and execute_query, one action per step *)

NoRet == 0 - 1
NoOutcome == Transport("none")
NoDisk == [exists |-> FALSE, size |-> 0, readable |-> FALSE, content |-> <<>>, pages |-> <<>>]
NoConfig == NoData
IdleParsed ==
    [query |-> <<>>, file_path |-> NoPath, model |-> Str("sonar"),
     provider |-> Str("perplexity"), show_sources |-> FALSE, warn |-> <<>>]

\* Exception classes: the SmartTermError family, and everything that derives
\* from Exception (KeyboardInterrupt does not)
IsSmartTermError(cls) ==
    cls \in {"SmartTermError", "MissingAPIKeyError", "UnsupportedFileTypeError",
             "FileSizeExceededError", "APIError", "ConfigurationError",
             "UnsupportedProviderError"}
IsException(cls) == cls # "KeyboardInterrupt"

\* the except clauses of the outer try of execute_query
OuterHandler(e) ==
    IF e.cls = "ConfigurationError"
    THEN [caught |-> TRUE, code |-> 6, shown |-> e]
    ELSE IF IsSmartTermError(e.cls)
    THEN [caught |-> TRUE, code |-> 1, shown |-> e]
    ELSE IF IsException(e.cls)
    THEN [caught |-> TRUE, code |-> 1,
          shown |-> Exc("Exception", [id |-> "Unexpected error", inner |-> e.msg])]
    ELSE [caught |-> FALSE, code |-> NoRet, shown |-> e]

Handler_swapped(s, e) ==
    CASE s = "file" /\ e.cls = "FileNotFoundError" ->
            [caught |-> TRUE, code |-> 2, shown |-> e]
      [] s = "file" /\ e.cls = "UnsupportedFileTypeError" ->
            [caught |-> TRUE, code |-> 4, shown |-> e]
      [] s = "file" /\ e.cls = "FileSizeExceededError" ->
            [caught |-> TRUE, code |-> 3, shown |-> e]
      [] s = "provider" /\ e.cls \in {"MissingAPIKeyError", "UnsupportedProviderError"} ->
            [caught |-> TRUE, code |-> 1, shown |-> e]
      [] s = "send" /\ e.cls = "APIError" ->
            [caught |-> TRUE, code |-> 5, shown |-> e]
      [] OTHER -> OuterHandler(e)

\* the except clause that takes exception e raised in try block s of
\* execute_query ("file", "provider", "send": the inner blocks; "outer": the
\* rest of the body), the value it returns and the error it displays
Handler(s, e) ==
    CASE s = "file" /\ e.cls = "FileNotFoundError" ->
            [caught |-> TRUE, code |-> 2, shown |-> e]
      [] s = "file" /\ e.cls = "UnsupportedFileTypeError" ->
            [caught |-> TRUE, code |-> 3, shown |-> e]
      [] s = "file" /\ e.cls = "FileSizeExceededError" ->
            [caught |-> TRUE, code |-> 4, shown |-> e]
      [] s = "provider" /\ e.cls \in {"MissingAPIKeyError", "UnsupportedProviderError"} ->
            [caught |-> TRUE, code |-> 1, shown |-> e]
      [] s = "send" /\ e.cls = "APIError" ->
            [caught |-> TRUE, code |-> 5, shown |-> e]
      [] OTHER -> OuterHandler(e)

\* the show_sources argument of the display_response call in execute_query:
\* the call passes (response, parsed_args.model), so the default applies
ShowSourcesAtCall == FALSE

\* main(): no arguments prints the usage and returns 1
MainStart ==
    /\ pc = "main"
    /\ IF args = <<>>
       THEN pc' = "exit" /\ exitCode' = 1
       ELSE pc' = "load_config" /\ UNCHANGED exitCode
    /\ UNCHANGED <<args, fs, env, cfgFile, config, parsed, fileContent, readerCalls,
                   response, showArg, spinner, frames, httpLog, stderr, disk, http,
                   raised, site, ret, sigint>>

\* config = config_loader.load_config()
LoadConfig ==
    /\ pc = "load_config"
    /\ config' = load_config(cfgFile)
    /\ pc' = "parse"
    /\ UNCHANGED <<args, fs, env, cfgFile, parsed, fileContent, readerCalls,
                   response, showArg, spinner, frames, httpLog, stderr, disk, http,
                   raised, site, ret, exitCode, sigint>>

\* parsed_args = parser.parse(args)
Parse ==
    /\ pc = "parse"
    /\ parsed' = parse(args, fs, Get(config, "default_model", Str("sonar")),
                       Get(config, "default_provider", Str("perplexity")))
    /\ stderr' = stderr \o parsed'.warn
    /\ pc' = "check_query"
    /\ UNCHANGED <<args, fs, env, cfgFile, config, fileContent, readerCalls,
                   response, showArg, spinner, frames, httpLog, disk, http,
                   raised, site, ret, exitCode, sigint>>

\* an execute_query that does not look at the descriptor before going on
CheckQuery_skipped ==
    /\ pc = "check_query"
    /\ pc' = IF parsed.file_path # NoPath THEN "read_file" ELSE "display_query"
    /\ UNCHANGED <<args, fs, env, cfgFile, config, parsed, fileContent, readerCalls,
                   response, showArg, spinner, frames, httpLog, stderr, disk, http,
                   raised, site, ret, exitCode, sigint>>

\* if not parsed_args.query and not parsed_args.file_path: ... return 1
CheckQuery ==
    /\ pc = "check_query"
    /\ IF parsed.query = <<>> /\ parsed.file_path = NoPath
       THEN /\ frames' = Append(frames, display_error(Exc("Exception", Msg("No query provided"))))
            /\ ret' = 1
            /\ pc' = "returned"
       ELSE /\ pc' = IF parsed.file_path # NoPath THEN "read_file" ELSE "display_query"
            /\ UNCHANGED <<frames, ret>>
    /\ UNCHANGED <<args, fs, env, cfgFile, config, parsed, fileContent, readerCalls,
                   response, showArg, spinner, httpLog, stderr, disk, http,
                   raised, site, exitCode, sigint>>

\* file_content = file_handler.read_file(parsed_args.file_path)
ReadFile ==
    /\ pc = "read_file"
    /\ LET r == read_file(parsed.file_path, Get(config, "max_file_size_mb", Num(10)),
                          disk.exists, disk.size, disk.readable, disk.content,
                          disk.pages)
       IN /\ readerCalls' = readerCalls \o r.readers
          /\ IF r.exc # NoExc
             THEN /\ raised' = r.exc /\ site' = "file" /\ pc' = "except"
                  /\ UNCHANGED fileContent
             ELSE /\ fileContent' = r.file /\ pc' = "display_query"
                  /\ UNCHANGED <<raised, site>>
    /\ UNCHANGED <<args, fs, env, cfgFile, config, parsed, response, showArg,
                   spinner, frames, httpLog, stderr, disk, http, ret, exitCode, sigint>>

\* formatter.display_query(parsed_args.query, file_info)
DisplayQuery ==
    /\ pc = "display_query"
    /\ frames' = Append(frames, QueryFrame(parsed.query, fileContent.type))
    /\ pc' = "create_provider"
    /\ UNCHANGED <<args, fs, env, cfgFile, config, parsed, fileContent, readerCalls,
                   response, showArg, spinner, httpLog, stderr, disk, http,
                   raised, site, ret, exitCode, sigint>>

\* provider = ProviderFactory.create_provider(parsed_args.provider, config)
CreateProvider ==
    /\ pc = "create_provider"
    /\ LET e == create_provider(parsed.provider, env)
       IN IF e # NoExc
          THEN raised' = e /\ site' = "provider" /\ pc' = "except"
          ELSE pc' = "send" /\ UNCHANGED <<raised, site>>
    /\ UNCHANGED <<args, fs, env, cfgFile, config, parsed, fileContent, readerCalls,
                   response, showArg, spinner, frames, httpLog, stderr, disk, http,
                   ret, exitCode, sigint>>

\* ThinkingSpinner.__enter__: self.live.start()
SpinnerEnter(s) == "running"

SpinnerExit_forgets(s) == s

\* ThinkingSpinner.__exit__: self.live.stop()
SpinnerExit(s) == "stopped"

\* show_spinner = config.get('show_thinking_animation', True)
show_spinner == Truthy(Get(config, "show_thinking_animation", Bool(TRUE)))

\* if show_spinner: with ThinkingSpinner("Thinking..."): ... else: ...
BeginSend ==
    /\ pc = "send"
    /\ spinner' = IF show_spinner THEN SpinnerEnter(spinner) ELSE spinner
    /\ pc' = "request"
    /\ UNCHANGED <<args, fs, env, cfgFile, config, parsed, fileContent, readerCalls,
                   response, showArg, frames, httpLog, stderr, disk, http,
                   raised, site, ret, exitCode, sigint>>

\* the answers the provider may give
RunResponses ==
    { <<"a">>, <<>>, <<"a", CIT, "c">>,
      <<"a", CIT, "c", WCIT, "b", CIT, "c">>,
      <<"a", WCIT, "b", CIT, "c">> }

\* what requests.post may do
HttpOutcomes ==
    { Transport(k) : k \in {"timeout", "connect_timeout", "connection", "other"} }
    \cup { Reply(st, b, <<>>) :
             st \in {200, 401, 429, 500},
             b \in {"text", "no_choices", "empty_choices", "no_message",
                    "no_content", "error_field", "list", "null"} }
    \cup { Reply(st, "answer", c) : st \in {200, 500}, c \in RunResponses }

\* a send_query that tries once more when the first attempt fails
Request_retries ==
    /\ pc = "request"
    /\ \E o \in HttpOutcomes :
         LET r == send_query(o, ProviderTimeout)
         IN /\ http' = o
            /\ httpLog' = Append(httpLog,
                                 BuildRequest(parsed.query, parsed.model, fileContent,
                                              ProviderTimeout, Endpoint(config)))
            /\ response' = r.value
            /\ IF r.exc # NoExc /\ httpLog = <<>>
               THEN pc' = "request" /\ UNCHANGED <<raised, site>>
               ELSE /\ IF r.exc # NoExc
                       THEN raised' = r.exc /\ site' = "send"
                       ELSE UNCHANGED <<raised, site>>
                    /\ pc' = IF show_spinner THEN "spinner_exit"
                             ELSE IF r.exc # NoExc THEN "except" ELSE "after_send"
    /\ UNCHANGED <<args, fs, env, cfgFile, config, parsed, fileContent, readerCalls,
                   showArg, spinner, frames, stderr, disk, ret, exitCode, sigint>>

\* response = provider.send_query(query=..., model=..., file_content=...)
Request ==
    /\ pc = "request"
    /\ \E o \in HttpOutcomes :
         LET r == send_query(o, ProviderTimeout)
         IN /\ http' = o
            /\ httpLog' = Append(httpLog,
                                 BuildRequest(parsed.query, parsed.model, fileContent,
                                              ProviderTimeout, Endpoint(config)))
            /\ response' = r.value
            /\ IF r.exc # NoExc
               THEN raised' = r.exc /\ site' = "send"
               ELSE UNCHANGED <<raised, site>>
            /\ pc' = IF show_spinner THEN "spinner_exit"
                     ELSE IF r.exc # NoExc THEN "except" ELSE "after_send"
    /\ UNCHANGED <<args, fs, env, cfgFile, config, parsed, fileContent, readerCalls,
                   showArg, spinner, frames, stderr, disk, ret, exitCode, sigint>>

\* Ctrl-C while the configuration is loaded, while the file is read, or
\* while the request is pending: KeyboardInterrupt is raised there
Interrupt ==
    /\ pc \in {"load_config", "read_file", "request"}
    /\ raised' = Exc("KeyboardInterrupt", Msg(""))
    /\ site' = CASE pc = "load_config" -> "outer"
                 [] pc = "read_file"   -> "file"
                 [] pc = "request"     -> "send"
    /\ IF pc = "request"
       THEN /\ http' = Transport("interrupted")
            /\ httpLog' = Append(httpLog,
                                 BuildRequest(parsed.query, parsed.model, fileContent,
                                              ProviderTimeout, Endpoint(config)))
       ELSE UNCHANGED <<http, httpLog>>
    /\ pc' = IF pc = "request" /\ show_spinner THEN "spinner_exit" ELSE "except"
    /\ sigint' = TRUE
    /\ UNCHANGED <<args, fs, env, cfgFile, config, parsed, fileContent, readerCalls,
                   response, showArg, spinner, frames, stderr, disk, ret, exitCode>>

\* Ctrl-C after a failure response has arrived, while send_query reads the
\* detail out of its body
InterruptDetail ==
    /\ pc = "request"
    /\ \E o \in HttpOutcomes :
         /\ o.kind = "response" /\ o.status >= 400 /\ o.status \notin {401, 429}
         /\ LET r == send_query_interrupted_in_detail(o, ProviderTimeout)
            IN /\ http' = o
               /\ httpLog' = Append(httpLog,
                                    BuildRequest(parsed.query, parsed.model, fileContent,
                                                 ProviderTimeout, Endpoint(config)))
               /\ response' = r.value
               /\ raised' = r.exc /\ site' = "send"
    /\ sigint' = TRUE
    /\ pc' = IF show_spinner THEN "spinner_exit" ELSE "except"
    /\ UNCHANGED <<args, fs, env, cfgFile, config, parsed, fileContent, readerCalls,
                   showArg, spinner, frames, stderr, disk, ret, exitCode>>

\* leaving the with block: ThinkingSpinner.__exit__ runs and does not
\* suppress the exception
LeaveSpinner ==
    /\ pc = "spinner_exit"
    /\ spinner' = SpinnerExit(spinner)
    /\ pc' = IF raised # NoExc THEN "except" ELSE "after_send"
    /\ UNCHANGED <<args, fs, env, cfgFile, config, parsed, fileContent, readerCalls,
                   response, showArg, frames, httpLog, stderr, disk, http,
                   raised, site, ret, exitCode, sigint>>

\* if response: formatter.display_response(response, parsed_args.model)
\* else: display_error(...); return 5
AfterSend ==
    /\ pc = "after_send"
    /\ IF response # <<>>
       THEN /\ showArg' = ShowSourcesAtCall
            /\ pc' = "display_response"
            /\ UNCHANGED <<frames, ret>>
       ELSE /\ frames' = Append(frames, display_error(
                             Exc("Exception", Msg("No response received from AI provider"))))
            /\ ret' = 5
            /\ pc' = "returned"
            /\ UNCHANGED showArg
    /\ UNCHANGED <<args, fs, env, cfgFile, config, parsed, fileContent, readerCalls,
                   response, spinner, httpLog, stderr, disk, http,
                   raised, site, exitCode, sigint>>

\* the body of display_response, then return 0
DisplayResponse ==
    /\ pc = "display_response"
    /\ LET r == display_response(response, parsed.model, showArg)
       IN IF r.exc # NoExc
          THEN /\ raised' = r.exc /\ site' = "outer" /\ pc' = "except"
               /\ UNCHANGED <<frames, ret>>
          ELSE /\ frames' = frames \o r.frames
               /\ ret' = 0
               /\ pc' = "returned"
               /\ UNCHANGED <<raised, site>>
    /\ UNCHANGED <<args, fs, env, cfgFile, config, parsed, fileContent, readerCalls,
                   response, showArg, spinner, httpLog, stderr, disk, http, exitCode, sigint>>

\* the except clauses of execute_query
Catch ==
    /\ pc = "except"
    /\ LET h == Handler(site, raised)
       IN IF h.caught
          THEN /\ frames' = Append(frames, display_error(h.shown))
               /\ ret' = h.code
               /\ pc' = "returned"
          ELSE /\ pc' = "main_except"
               /\ UNCHANGED <<frames, ret>>
    /\ UNCHANGED <<args, fs, env, cfgFile, config, parsed, fileContent, readerCalls,
                   response, showArg, spinner, httpLog, stderr, disk, http,
                   raised, site, exitCode, sigint>>

\* main(): return execute_query(args)
Return ==
    /\ pc = "returned"
    /\ exitCode' = ret
    /\ pc' = "exit"
    /\ UNCHANGED <<args, fs, env, cfgFile, config, parsed, fileContent, readerCalls,
                   response, showArg, spinner, frames, httpLog, stderr, disk, http,
                   raised, site, ret, sigint>>

\* the except clauses of main
MainCatch ==
    /\ pc = "main_except"
    /\ exitCode' = IF raised.cls = "KeyboardInterrupt" THEN 130 ELSE 1
    /\ pc' = "exit"
    /\ UNCHANGED <<args, fs, env, cfgFile, config, parsed, fileContent, readerCalls,
                   response, showArg, spinner, frames, httpLog, stderr, disk, http,
                   raised, site, ret, sigint>>

-----------------------------------------------------------------------------
(* Specifications *)

SeqsUpTo(S, n) == UNION { [1..k -> S] : k \in 0..n }

\* everything but the inputs, as it is before main runs
Idle ==
    /\ config = NoConfig
    /\ parsed = IdleParsed
    /\ fileContent = NoFile
    /\ readerCalls = <<>>
    /\ response = <<>>
    /\ showArg = FALSE
    /\ spinner = "idle"
    /\ frames = <<>>
    /\ httpLog = <<>>
    /\ stderr = <<>>
    /\ http = NoOutcome
    /\ raised = NoExc
    /\ site = "none"
    /\ ret = NoRet
    /\ exitCode = NoRet
    /\ sigint = FALSE

(* A whole run of main *)

RunTokens == {tk_file, tk_bin, tk_P, tk_show_s, tk_hi, tk_empty}
RunFiles  == {tk_file, tk_bin}
RunDisks  ==
    { [exists |-> TRUE, size |-> sz, readable |-> rd, content |-> <<"text">>,
        pages |-> <<>>] :
        sz \in {0, 10 * MB + 1}, rd \in BOOLEAN } \cup {NoDisk}
RunCfgFiles ==
    { AbsentFile, BadJsonFile, UnreadableFile,
      DictFile("show_thinking_animation" :> 1),
      DictFile("default_provider" :> 2),
      DictFile("timeout" :> 1),
      DictFile("perplexity_base_url" :> 1),
      [kind |-> "dict", data |-> ("default_model" :> Str("gpt-4"))],
      DictFile(("default_model" :> 2) @@ ("log_level" :> 2)) }

Init ==
    /\ pc = "main"
    /\ args \in SeqsUpTo(RunTokens, MaxRunArgs)
    /\ fs \in {{}, RunFiles}
    /\ disk \in IF fs = {} THEN {NoDisk} ELSE RunDisks
    /\ env \in {"unset", "empty", "set"}
    /\ cfgFile \in RunCfgFiles
    /\ Idle

Next ==
    \/ MainStart \/ LoadConfig \/ Parse \/ CheckQuery \/ ReadFile
    \/ DisplayQuery \/ CreateProvider \/ BeginSend \/ Request \/ Interrupt
    \/ InterruptDetail
    \/ LeaveSpinner \/ AfterSend \/ DisplayResponse \/ Catch \/ Return
    \/ MainCatch

Spec == Init /\ [][Next]_vars

(* parse on its own *)

ParseTokens == {tk_s, tk_P, tk_DeeP, tk_Show_Src, tk_x, tk_x1, tk_hi,
                tk_two, tk_empty, tk_file, tk_home}
ParseFiles  == {tk_file, expanduser(tk_home), tk_P}
\* the directory contents parse is run against
ParseFileSets == {{}, {tk_P}, {tk_file, expanduser(tk_home)}, ParseFiles}

InitParse ==
    /\ pc = "parse"
    /\ args \in SeqsUpTo(ParseTokens, MaxArgs)
    /\ fs \in ParseFileSets
    /\ \E dm \in {"sonar", "sonar-pro"} :
         config = [DEFAULT_CONFIG EXCEPT !["default_model"] = Str(dm)]
    /\ cfgFile = AbsentFile /\ env = "set" /\ disk = NoDisk
    /\ parsed = IdleParsed /\ fileContent = NoFile /\ readerCalls = <<>>
    /\ response = <<>> /\ showArg = FALSE /\ spinner = "idle" /\ frames = <<>>
    /\ httpLog = <<>> /\ stderr = <<>> /\ http = NoOutcome /\ raised = NoExc
    /\ site = "none" /\ ret = NoRet /\ exitCode = NoRet /\ sigint = FALSE

NextParse == Parse

SpecParse == InitParse /\ [][NextParse]_vars

(* display_response on its own *)

RespAtoms == {"a", " ", CIT, WCIT}

InitRender ==
    /\ pc = "display_response"
    /\ response \in SeqsUpTo(RespAtoms, MaxRespLen)
    /\ showArg \in BOOLEAN
    /\ parsed = [IdleParsed EXCEPT !.query = tk_hi]
    /\ config = DEFAULT_CONFIG
    /\ args = <<tk_hi>> /\ fs = {} /\ cfgFile = AbsentFile /\ env = "set"
    /\ disk = NoDisk /\ fileContent = NoFile /\ readerCalls = <<>>
    /\ spinner = "idle" /\ frames = <<>> /\ httpLog = <<>> /\ stderr = <<>>
    /\ http = NoOutcome /\ raised = NoExc /\ site = "none"
    /\ ret = NoRet /\ exitCode = NoRet /\ sigint = FALSE

NextRender == DisplayResponse

SpecRender == InitRender /\ [][NextRender]_vars

(* read_file on its own *)

FilePaths == {tk_file, expanduser(tk_home), tk_pdf, tk_png, tk_bin, tk_noext, tk_hidden}

MaxPages == 3

\* page.extract_text() of a page: nothing, text, or blanks only
PageTexts == {<<>>, <<"a">>, <<"b">>, <<" ">>}

\* what is on the disk at path p: the pages of a PDF, the bytes of another file
DiskData(p) ==
    IF detect_file_type(p) = "pdf"
    THEN { [content |-> <<>>, pages |-> ps] : ps \in SeqsUpTo(PageTexts, MaxPages) }
    ELSE { [content |-> <<"text">>, pages |-> <<>>] }

InitFile ==
    /\ pc = "read_file"
    /\ \E p \in FilePaths : parsed = [IdleParsed EXCEPT !.query = tk_hi, !.file_path = p]
    /\ \E m \in {1, 10} : config = [DEFAULT_CONFIG EXCEPT !["max_file_size_mb"] = Num(m)]
    /\ \E d \in DiskData(parsed.file_path), ex \in BOOLEAN, sz \in FileSizes, rd \in BOOLEAN :
            disk = [exists |-> ex, size |-> sz, readable |-> rd,
                    content |-> d.content, pages |-> d.pages]
    /\ args = <<>> /\ fs = {} /\ cfgFile = AbsentFile /\ env = "set"
    /\ fileContent = NoFile /\ readerCalls = <<>> /\ response = <<>>
    /\ showArg = FALSE /\ spinner = "idle" /\ frames = <<>> /\ httpLog = <<>>
    /\ stderr = <<>> /\ http = NoOutcome /\ raised = NoExc /\ site = "none"
    /\ ret = NoRet /\ exitCode = NoRet /\ sigint = FALSE

NextFile == ReadFile

SpecFile == InitFile /\ [][NextFile]_vars

(* send_query on its own: the request it builds and what it makes of the
   outcome, for every query, model and kind of attached file *)

SendQueries == {tk_hi, tk_x, <<>>}
SendModels  == {"sonar", "sonar-pro", "sonar-reasoning-pro", "sonar-deep-research"}
SendFiles   ==
    { [type |-> detect_file_type(p), content |-> c, metadata |-> [size_bytes |-> 0],
       file_path |-> p] :
        p \in {tk_file, expanduser(tk_home), tk_pdf, tk_png}, c \in {<<"text">>, <<>>} }
    \cup {NoFile}

InitSend ==
    /\ pc = "request"
    /\ fileContent \in SendFiles
    /\ \E q \in SendQueries, m \in SendModels :
         parsed = [IdleParsed EXCEPT !.query = q, !.model = Str(m),
                                     !.file_path = fileContent.file_path]
    /\ config = [DEFAULT_CONFIG EXCEPT !["show_thinking_animation"] = Bool(FALSE)]
    /\ args = <<>> /\ fs = {} /\ cfgFile = AbsentFile /\ env = "set" /\ disk = NoDisk
    /\ readerCalls = <<>> /\ response = <<>> /\ showArg = FALSE
    /\ spinner = "idle" /\ frames = <<>> /\ httpLog = <<>> /\ stderr = <<>>
    /\ http = NoOutcome /\ raised = NoExc /\ site = "none"
    /\ ret = NoRet /\ exitCode = NoRet /\ sigint = FALSE

NextSend == Request

SpecSend == InitSend /\ [][NextSend]_vars

(* load_config on its own *)

InitConfig ==
    /\ pc = "load_config"
    /\ cfgFile \in DictFiles \cup {AbsentFile, UnreadableFile, BadJsonFile, NotDictFile}
    /\ args = <<tk_hi>> /\ fs = {} /\ env = "set" /\ disk = NoDisk
    /\ Idle

NextConfig == LoadConfig

SpecConfig == InitConfig /\ [][NextConfig]_vars

(* display_response with show_sources=True on a body and a citations list *)

MaxCiteLines == 3

\* n times the character c
Rep(c, n) == [i \in 1..n |-> c]

cl_www    == <<"[","1","]"," ","h","t","t","p","s",":","/","/","w","w","w",".","a",".","i","o","/","p","/","q">>
cl_host   == <<"[","2","]"," ","h","t","t","p",":","/","/","b",".","i","o">>
cl_fits   == <<"[","3","]"," "," ","h","t","t","p",":","/","/">> \o Rep("c", 55) \o <<".","i","o","/","x">>
cl_long   == <<"[","1","0","]"," ","h","t","t","p",":","/","/">> \o Rep("c", 56) \o <<".","i","o","/","x","y">>
cl_query  == <<"[","4","]"," ","h","t","t","p",":","/","/","b",".","i","o","?","q","/","z"," ","t">>
cl_badurl == <<"[","5","]"," ","h","t","t","p","s",":","/","/","[","x","/","y">>
cl_text   == <<"s","e","e"," ","b">>
cl_nonum  == <<"[","a","]"," ","h","t","t","p",":","/","/","b",".","i","o">>
cl_blank  == <<" ">>
cl_empty  == <<>>
cl_marker == <<CIT>>
cl_under  == <<"_","_","x">>

CiteLines == {cl_www, cl_host, cl_fits, cl_long, cl_query, cl_badurl, cl_text,
              cl_nonum, cl_blank, cl_empty, cl_marker, cl_under}

InitCite ==
    /\ pc = "display_response"
    /\ \E ls \in SeqsUpTo(CiteLines, MaxCiteLines) :
            response = <<"a", CIT>> \o StrJoin(<<"\n">>, ls)
    /\ showArg = TRUE
    /\ parsed = [IdleParsed EXCEPT !.query = tk_hi]
    /\ config = DEFAULT_CONFIG
    /\ args = <<tk_hi>> /\ fs = {} /\ cfgFile = AbsentFile /\ env = "set"
    /\ disk = NoDisk /\ fileContent = NoFile /\ readerCalls = <<>>
    /\ spinner = "idle" /\ frames = <<>> /\ httpLog = <<>> /\ stderr = <<>>
    /\ http = NoOutcome /\ raised = NoExc /\ site = "none"
    /\ ret = NoRet /\ exitCode = NoRet /\ sigint = FALSE

NextCite == DisplayResponse

SpecCite == InitCite /\ [][NextCite]_vars

-----------------------------------------------------------------------------
(* Reference readings of the argument interpreter, written from the        *)
(* specification's wording rather than from the parser's loops             *)

\* the model a token selects, "" when it is no model flag
RefFlagModel(t) ==
    LET l == StrLower(t)
    IN CASE l = <<"-","-","s">>             -> "sonar"
         [] l = <<"-","-","p">>             -> "sonar-pro"
         [] l = <<"-","-","r">>             -> "sonar-reasoning-pro"
         [] l = <<"-","-","d","e","e","p">> -> "sonar-deep-research"
         [] OTHER                           -> ""

RefIsModelFlag(t) == RefFlagModel(t) # ""

RefIsSourcesFlag(t) ==
    StrLower(t) \in { <<"-","-","s","h","o","w","-","s","o","u","r","c","e","s">>,
                      <<"-","-","s","h","o","w","-","s","o","u","r","c","e">>,
                      <<"-","-","s","h","o","w","-","s">> }

RefIsQueryToken(t) == ~RefIsModelFlag(t) /\ ~RefIsSourcesFlag(t)

\* the model of the rightmost model flag of ts, dflt when there is none
RefModel(ts, dflt) ==
    LET idx == {i \in 1..Len(ts) : RefIsModelFlag(ts[i])}
    IN IF idx = {} THEN dflt
       ELSE Str(RefFlagModel(ts[CHOOSE i \in idx : \A j \in idx : j <= i]))

RefShowSources(ts) == \E i \in 1..Len(ts) : RefIsSourcesFlag(ts[i])

RefQuery(ts) == StrJoin(<<" ">>, SelectSeq(ts, RefIsQueryToken))

\* token 0 names an existing regular file when parse runs
Token0IsFile == args # <<>> /\ expanduser(args[1]) \in fs

\* the tokens left once the file path is taken
RestTokens == IF Token0IsFile THEN Tail(args) ELSE args

ConfiguredDefaultModel == Get(config, "default_model", Str("sonar"))

-----------------------------------------------------------------------------
(* Claims *)

\* C1: when token 0 (after home-directory expansion) names an existing
\* regular file, parse sets file_path to that path and token 0 contributes
\* nothing to query, model or show_sources; a token at a later position that
\* names an existing file is never taken as file_path and is treated like
\* any other token.
C1_FileOnlyAtToken0 ==
    pc = "check_query" =>
        /\ parsed.file_path = (IF Token0IsFile THEN expanduser(args[1]) ELSE NoPath)
        /\ parsed.query = RefQuery(RestTokens)
        /\ parsed.model = RefModel(RestTokens, ConfiguredDefaultModel)
        /\ parsed.show_sources = RefShowSources(RestTokens)

\* C1 witness: token 0 is an existing file (written with "~"), a later token
\* names an existing file too and ends up in the query
C1_Witness ==
    /\ pc = "check_query"
    /\ Token0IsFile
    /\ args[1] = tk_home
    /\ Len(args) = 3 /\ args[3] = tk_file /\ tk_file \in fs
    /\ parsed.file_path = Home \o <<"/","f",".","m","d">>
    /\ parsed.query = <<"h","i"," ","f",".","t","x","t">>

\* C2 as stated: the model is that of the rightmost recognized model flag of
\* the whole input, the configured default when the input has none.
C2_RightmostFlagOfInput ==
    pc = "check_query" => parsed.model = RefModel(args, ConfiguredDefaultModel)

\* C2 amended: the model is that of the rightmost recognized model flag among
\* the tokens left after file detection (token 0, when it is taken as the
\* file path, is not scanned for flags), for every order and repetition of
\* flags; the configured default when those tokens hold no model flag.
C2_RightmostFlagOfRest ==
    pc = "check_query" => parsed.model = RefModel(RestTokens, ConfiguredDefaultModel)

\* C2 witness: token 0 is spelled like a model flag but is taken as the file
\* path; of the two different flags that follow, the last one wins
C2_Witness ==
    /\ pc = "check_query"
    /\ Token0IsFile /\ RefIsModelFlag(args[1])
    /\ Len(args) = 3
    /\ RefIsModelFlag(args[2]) /\ RefIsModelFlag(args[3])
    /\ RefFlagModel(args[2]) # RefFlagModel(args[3])
    /\ RefFlagModel(args[1]) # RefFlagModel(args[3])
    /\ parsed.model = Str(RefFlagModel(args[3]))
    /\ parsed.model # ConfiguredDefaultModel

\* C3 as stated: when the arguments hold a sources flag and the answer
\* carries a citations list after __CITATIONS__, the run that renders the
\* answer renders the citations in the Sources frame.
C3_SourcesFrameRendered ==
    /\ pc = "returned" /\ ret = 0
    /\ parsed.show_sources
    /\ Contains(response, CIT)
    => \E i \in 1..Len(frames) : frames[i].kind = "sources"

\* C4 as stated: whatever requests.post does (a response of any status and
\* body, or a transport failure), send_query returns the first choice's
\* message content or fails with APIError.
C4_OnlyAPIErrorEscapes ==
    /\ http.kind \in {"response", "timeout", "connect_timeout", "connection", "other"}
    /\ pc \in {"spinner_exit", "after_send"} \/ (pc = "except" /\ site = "send")
    => \/ raised = NoExc /\ http.body = "answer" /\ response = http.content
       \/ raised.cls = "APIError"

\* the states in which execute_query renders the answer or an error, or has
\* finished
AfterRequest ==
    pc \in {"after_send", "display_response", "except", "main_except",
            "returned", "exit"}

\* C5: with the thinking animation enabled the spinner runs while the
\* provider request is pending and is started only right before it; on every
\* way out of the request (answer, APIError, another exception, Ctrl-C) it is
\* stopped before anything is rendered and before execute_query ends.
C5_SpinnerScoped ==
    /\ pc = "request" /\ show_spinner => spinner = "running"
    /\ spinner = "running" => pc \in {"request", "spinner_exit"}
    /\ AfterRequest => spinner # "running"

\* C5 witness: Ctrl-C during the pending request, spinner stopped before the
\* handlers run
C5_Witness ==
    /\ pc = "except" /\ raised.cls = "KeyboardInterrupt" /\ site = "send"
    /\ Len(httpLog) = 1
    /\ show_spinner /\ spinner = "stopped"

\* what ended the run, read off the history
FileFailed(cls) == site = "file" /\ raised.cls = cls
EmptyAnswer == raised = NoExc /\ http.kind = "response" /\ response = <<>>
MissingQuery == parsed.query = <<>> /\ parsed.file_path = NoPath
OtherError ==
    /\ raised # NoExc
    /\ raised.cls \notin {"FileNotFoundError", "UnsupportedFileTypeError",
                          "FileSizeExceededError", "APIError"}

\* C6: execute_query returns 0 only after a non-empty answer was rendered;
\* 2, 3, 4 when file ingestion fails with FileNotFound, UnsupportedFileType,
\* FileSizeExceeded; 5 when the provider call fails with APIError or yields
\* an empty answer; 1 for a missing query, a missing API key, an unsupported
\* provider and any other error; and nothing outside 0..6.
C6_ExitCodes ==
    pc = "returned" =>
        /\ ret \in 0..6
        /\ ret = 0 => /\ response # <<>>
                      /\ \E i \in 1..Len(frames) :
                            /\ frames[i].kind = "response"
                            /\ \A j \in i..Len(frames) : frames[j].kind # "error"
        /\ FileFailed("FileNotFoundError") => ret = 2
        /\ FileFailed("UnsupportedFileTypeError") => ret = 3
        /\ FileFailed("FileSizeExceededError") => ret = 4
        /\ raised.cls = "APIError" \/ EmptyAnswer => ret = 5
        /\ MissingQuery => ret = 1
        /\ raised.cls \in {"MissingAPIKeyError", "UnsupportedProviderError"} => ret = 1
        /\ OtherError => ret = 1

\* C6 witness: an unsupported attachment ends the run with 3
C6_Witness ==
    /\ pc = "returned" /\ ret = 3
    /\ FileFailed("UnsupportedFileTypeError")
    /\ frames[Len(frames)].kind = "error"

\* the remediation text was rendered
RemediationShown ==
    \E i \in 1..Len(frames) :
        /\ frames[i].kind = "error"
        /\ frames[i].etype = "MissingAPIKeyError"

\* C7 as stated, for runs that come with a query and the perplexity
\* provider: when the API-key variable is not set, execute_query ends with 1 after rendering the remediation
\* text, and issues no HTTP request.
C7_MissingKeyFailsFirst ==
    /\ pc = "returned" /\ env = "unset"
    /\ parsed.query # <<>> /\ parsed.provider = Str("perplexity")
    => ret = 1 /\ RemediationShown /\ httpLog = <<>>

\* C8 as stated: for a response holding both markers, display_response with
\* show_sources false renders exactly one frame, whose body holds neither
\* marker, and no Sources frame.
C8_OneCleanFrame ==
    /\ pc # "display_response"
    /\ Contains(response, CIT) /\ Contains(response, WCIT)
    /\ ~showArg
    => /\ raised = NoExc
       /\ Len(frames) = 1
       /\ frames[1].kind = "response"
       /\ ~Contains(frames[1].body, CIT) /\ ~Contains(frames[1].body, WCIT)

\* max_file_size_mb as the FileHandler was given it
MaxSizeMB == NumVal(Get(config, "max_file_size_mb", Num(10)))

\* C9: read_file on an existing file of more than maxSizeMB * 2^20 bytes
\* fails with FileSizeExceeded whatever its extension, and invokes no reader;
\* the size is checked after the existence (a missing file is FileNotFound
\* whatever else holds) and before the extension.
C9_OversizeRejected ==
    pc # "read_file" =>
        /\ disk.exists /\ disk.size > MaxSizeMB * (2 ^ 20)
           => raised.cls = "FileSizeExceededError" /\ readerCalls = <<>>
              /\ fileContent = NoFile
        /\ ~disk.exists
           => raised.cls = "FileNotFoundError" /\ readerCalls = <<>>

\* C9 witness: an oversized file of an unsupported type
C9_Witness ==
    /\ pc = "except"
    /\ disk.exists /\ disk.size = 2 ^ 20 + 1 /\ MaxSizeMB = 1
    /\ parsed.file_path = tk_bin
    /\ raised.cls = "FileSizeExceededError"

\* the values the specification allows a recognized key; of a model or a
\* provider name nothing more is asked than that it is a string
RefValidValue(k, v) ==
    CASE k = "default_model" -> v.t = "str"
      [] k = "default_provider" -> v.t = "str"
      [] k = "timeout" -> v.t = "num" /\ v.n > 0
      [] k = "max_file_size_mb" -> v.t = "num" /\ v.n > 0
      [] k = "output_format" -> v.t = "str" /\ v.s \in {"markdown", "plain"}
      [] k = "show_thinking_animation" -> v.t = "bool"
      [] k = "log_level" ->
            v.t = "str" /\ v.s \in {"DEBUG", "INFO", "WARNING", "ERROR", "CRITICAL"}

\* C10 as stated: a user file in which some recognized key has an invalid
\* value makes load_config return exactly the built-in defaults.
C10_InvalidKeyDiscardsFile ==
    /\ pc = "parse" /\ cfgFile.kind = "dict"
    /\ \E k \in RecognizedKeys \cap DOMAIN cfgFile.data :
            ~RefValidValue(k, cfgFile.data[k])
    => config = DEFAULT_CONFIG

\* the timeout of the loaded configuration, 30 when the key is not set
ConfiguredTimeout == NumVal(Get(config, "timeout", Num(30)))

\* C11 as stated: the timeout given to the HTTP request, and the one named in
\* the message of the timeout APIError, is the timeout of the loaded
\* configuration.
C11_ConfiguredTimeoutApplied ==
    /\ \A i \in 1..Len(httpLog) : httpLog[i].timeout = ConfiguredTimeout
    /\ pc = "except" /\ site = "send" /\ http.kind = "timeout"
       => raised.cls = "APIError" /\ raised.msg.seconds = ConfiguredTimeout

\* the user's file is there and json.load on it fails
LoadFails == cfgFile.kind \in {"unreadable", "badjson"}

\* C12 as stated: when loading the user configuration fails (the file cannot
\* be read or is not valid JSON), a run that is not interrupted ends with
\* exit code 6.
C12_LoadFailureExits6 ==
    /\ pc = "exit" /\ args # <<>> /\ LoadFails
    /\ raised.cls # "KeyboardInterrupt"
    => exitCode = 6

\* C13 as stated: a KeyboardInterrupt raised during execute_query is not
\* turned into another error on its way out, the spinner is stopped when the
\* handlers run, and main returns 130.
C13_InterruptExits130 ==
    sigint =>
        /\ pc \in {"spinner_exit", "except", "main_except"}
           => raised.cls = "KeyboardInterrupt"
        /\ pc \in {"except", "main_except", "exit"} => spinner # "running"
        /\ pc # "returned"
        /\ pc = "exit" => exitCode = 130

\* the request came back as a timeout, a connection failure or an error status
RequestFailed ==
    \/ http.kind \in {"timeout", "connect_timeout", "connection"}
    \/ http.kind = "response" /\ http.status >= 400

\* C14: a run sends at most one HTTP request; after a timeout, a connection
\* failure or an error status no second request follows, and the run ends
\* with the APIError rendered and exit code 5.
C14_SingleRequestNoRetry ==
    /\ Len(httpLog) <= 1
    /\ RequestFailed =>
          /\ Len(httpLog) = 1
          /\ pc \in {"spinner_exit", "except", "returned", "exit"}
          /\ raised.cls = "APIError"
          /\ pc \in {"returned", "exit"} =>
                /\ ret = 5
                /\ frames[Len(frames)] = display_error(raised)

\* C14 witness: a timed-out request ended the run with 5
C14_Witness ==
    /\ pc = "exit" /\ exitCode = 5
    /\ http.kind = "timeout" /\ Len(httpLog) = 1
    /\ frames[Len(frames)].etype = "APIError"

\* the detail the specification puts into the message of a failure status:
\* the error field of a JSON body that has one, else the raw body text
RefStatusDetail(body) == IF body = "error_field" THEN "error field" ELSE "raw body"

\* C15 as stated: for a failure status other than 401 and 429 the APIError
\* message holds the status code and the body's error field when the body is
\* JSON with such a field, and the raw body text in every other case.
C15_StatusMessageDetail ==
    /\ pc = "except" /\ site = "send" /\ ~sigint
    /\ http.kind = "response" /\ http.status >= 400 /\ http.status \notin {401, 429}
    => /\ raised.cls = "APIError"
       /\ raised.msg.id = "API request failed with status"
       /\ raised.msg.status = http.status
       /\ raised.msg.detail = RefStatusDetail(http.body)

\* the rule of the specification's list that an outcome of the HTTP call
\* matches first, named by the message of its APIError
RefFailureRule(o) ==
    IF o.kind = "response" /\ o.status = 401 THEN "Authentication failed"
    ELSE IF o.kind = "response" /\ o.status = 429 THEN "Rate limit exceeded"
    ELSE IF o.kind = "response" /\ o.status >= 400 THEN "API request failed with status"
    ELSE IF o.kind = "response" THEN "no failure"
    ELSE IF IsTimeout(o.kind) THEN "Request timed out"
    ELSE IF IsConnectionError(o.kind) THEN "Network error"
    ELSE "Request failed"

\* C16: send_query classifies the outcome of the HTTP call by the first
\* matching rule in the order 401, 429, other status >= 400, timeout,
\* connection failure, other transport failure; each gives an APIError with
\* that rule's message, and a status APIError is not wrapped again by the
\* transport handlers.
C16_ClassificationOrder ==
    /\ pc = "except" /\ site = "send"
    /\ http.kind \in {"response", "timeout", "connect_timeout", "connection", "other"}
    /\ RefFailureRule(http) # "no failure"
    => /\ raised.cls = "APIError"
       /\ raised.msg.id = RefFailureRule(http)

\* C16 witness: a connect timeout, which is a Timeout and a ConnectionError,
\* reported as a timeout
C16_Witness ==
    /\ pc = "except" /\ site = "send"
    /\ http.kind = "connect_timeout"
    /\ raised.cls = "APIError" /\ raised.msg.id = "Request timed out"

\* the content of the one message, as the specification gives it for each
\* kind of attached file
RefContent(query, fc) ==
    CASE fc = NoFile ->
            query
      [] fc # NoFile /\ fc.type = "text" ->
            <<"File content from ">> \o fc.file_path \o <<":\n\n">>
            \o fc.content \o <<"\n\n">> \o query
      [] fc # NoFile /\ fc.type = "pdf" ->
            <<"Content from ">> \o fc.file_path \o <<":\n\n">>
            \o fc.content \o <<"\n\n">> \o query
      [] fc # NoFile /\ fc.type = "image" ->
            << [type |-> "text", text |-> query],
               [type |-> "image_url",
                image_url |-> [url |-> <<"data:image/jpeg;base64,">> \o fc.content]] >>

\* C17: the request body send_query builds has the given model and exactly
\* one message, of role user, whose content is the query verbatim without a
\* file, "File content from {path}:\n\n{content}\n\n{query}" for a text
\* file, "Content from {path}:\n\n{content}\n\n{query}" for a pdf, and for
\* an image the list of a text part with the query and an image_url part
\* with the data URL of the base64 payload.
C17_RequestBody ==
    pc # "request" =>
        /\ Len(httpLog) = 1
        /\ httpLog[1].json.model = parsed.model
        /\ httpLog[1].json.messages =
              << [role |-> "user", content |-> RefContent(parsed.query, fileContent)] >>

\* C17 witness: a request sent with a pdf attached
C17_Witness ==
    /\ pc # "request" /\ Len(httpLog) = 1
    /\ fileContent.type = "pdf" /\ parsed.query = tk_hi
    /\ httpLog[1].json.messages[1].content =
          <<"Content from ", "d", ".", "P", "D", "F", ":\n\n", "text", "\n\n", "h", "i">>

\* the positions of the input whose tokens belong to the query: not the
\* position of the consumed file path, and no recognized flag
KeptPositions ==
    SelectSeq([i \in 1..Len(args) |-> i],
              LAMBDA i : ~(i = 1 /\ Token0IsFile) /\ RefIsQueryToken(args[i]))

KeptTokens == [k \in 1..Len(KeptPositions) |-> args[KeptPositions[k]]]

\* C18: the query returned by parse is the single-space join, in the
\* original order, of exactly the input tokens that are not the consumed file
\* path, not a recognized model flag and not a recognized sources flag; none
\* is dropped, duplicated or reordered.
C18_QueryJoinsKeptTokens ==
    pc = "check_query" => parsed.query = StrJoin(<<" ">>, KeptTokens)

\* C18 witness: a flag between two words, and an empty token at the end
C18_Witness ==
    /\ pc = "check_query"
    /\ args = <<tk_two, tk_P, tk_empty>>
    /\ parsed.query = <<"a", " ", "b", " ">>

\* a token of the shape the specification names: -- followed by 1 to 5
\* letters
RefFlagShaped(t) ==
    /\ Len(t) \in 3..7
    /\ t[1] = "-" /\ t[2] = "-"
    /\ \A i \in 3..Len(t) : IsAlpha(t[i])

\* a token that starts with -- and a letter and has at most 7 characters
RefFlagLike(t) ==
    /\ Len(t) \in 3..7
    /\ t[1] = "-" /\ t[2] = "-"
    /\ IsAlpha(t[3])

\* the tokens the unknown-flag warnings on standard error name, in order
WarnedTokens ==
    LET w == SelectSeq(stderr, LAMBDA x : x.kind = "unknown_flag")
    IN [i \in 1..Len(w) |-> w[i].arg]

\* C19 as stated: the unknown-flag warning is printed for exactly the tokens
\* of the shape -- plus 1 to 5 letters that are no recognized flag, each of
\* which stays in the query; parse raises nothing.
C19_WarnsFlagShapedOnly ==
    pc = "check_query" =>
        /\ WarnedTokens =
              SelectSeq(RestTokens,
                        LAMBDA t : RefFlagShaped(t) /\ RefIsQueryToken(t))
        /\ \A i \in 1..Len(WarnedTokens) :
              \E k \in 1..Len(KeptTokens) : KeptTokens[k] = WarnedTokens[i]
        /\ raised = NoExc

\* C19 amended: the warning is printed for exactly the tokens that start
\* with -- and a letter, have at most 7 characters and are no recognized
\* flag, whatever follows the first letter; each stays in the query, and
\* parse raises nothing.
C19_WarnsFlagLikeTokens ==
    pc = "check_query" =>
        /\ WarnedTokens =
              SelectSeq(RestTokens,
                        LAMBDA t : RefFlagLike(t) /\ RefIsQueryToken(t))
        /\ \A i \in 1..Len(WarnedTokens) :
              \E k \in 1..Len(KeptTokens) : KeptTokens[k] = WarnedTokens[i]
        /\ parsed.query = StrJoin(<<" ">>, KeptTokens)
        /\ raised = NoExc

\* C19 witness: --x and --x1 both warned about and both in the query
C19_Witness ==
    /\ pc = "check_query"
    /\ args = <<tk_x, tk_P, tk_x1>>
    /\ WarnedTokens = <<tk_x, tk_x1>>
    /\ parsed.query = <<"-","-","x"," ","-","-","x","1">>

\* the models of the specification's enumeration
RefModels == {Str("sonar"), Str("sonar-pro"), Str("sonar-reasoning-pro"),
              Str("sonar-deep-research")}

\* C20 as stated: the model of the descriptor parse returns, and the model
\* of every request sent to the provider, is one of sonar, sonar-pro,
\* sonar-reasoning-pro and sonar-deep-research.
C20_ModelInEnumeration ==
    /\ pc \notin {"main", "load_config", "parse"} /\ args # <<>>
       => parsed.model \in RefModels
    /\ \A i \in 1..Len(httpLog) : httpLog[i].json.model \in RefModels

\* the descriptor has a query or a file path
HasQueryOrFile == parsed.query # <<>> \/ parsed.file_path # NoPath

\* C21 as stated: the descriptor parse returns has a non-empty query or a
\* file path, for every argument list.
C21_ParseGivesQueryOrFile ==
    pc = "check_query" => HasQueryOrFile

\* C21 amended: parse can return a descriptor with neither; execute_query
\* turns it away right after parse (error frame, return 1, nothing read and
\* nothing sent), so every descriptor a later step works on has a query or a
\* file path.
C21_RunNeedsQueryOrFile ==
    /\ pc \in {"read_file", "display_query", "create_provider", "send", "request",
               "spinner_exit", "after_send", "display_response"}
       => HasQueryOrFile
    /\ pc = "returned" /\ ~HasQueryOrFile
       => /\ ret = 1
          /\ frames = <<display_error(Exc("Exception", Msg("No query provided")))>>
          /\ httpLog = <<>> /\ readerCalls = <<>>

\* C21 witness: a lone model flag, turned away with 1
C21_Witness ==
    /\ pc = "returned" /\ ret = 1
    /\ args = <<tk_P>>
    /\ parsed.query = <<>> /\ parsed.file_path = NoPath
    /\ parsed.model = Str("sonar-pro")

\* execute_query got as far as calling display_response
DisplayResponseCalled ==
    /\ response # <<>>
    /\ pc \in {"except", "main_except", "returned", "exit"}

\* C22 as stated: every non-zero return of execute_query is shown in
\* display_error's frame, which carries the kind and the message of the error,
\* and display_response is never called in such a run.
C22_FailureShownWithoutResponse ==
    pc = "returned" /\ ret # 0
    => /\ frames # <<>>
       /\ frames[Len(frames)].kind = "error"
       /\ raised # NoExc =>
            frames[Len(frames)] = display_error(Handler(site, raised).shown)
       /\ ~DisplayResponseCalled

\* C23 as stated: for a valid user file, load_config returns the user's value
\* of each recognized key that is present and the default of each that is
\* missing, and the other keys of the file neither appear in the returned
\* configuration nor change what follows: the request goes to the same
\* endpoint as without them.
C23_UnknownKeysWithoutEffect ==
    /\ config # NoConfig
    /\ cfgFile.kind = "dict" /\ validate_config(cfgFile)
    => /\ \A k \in RecognizedKeys :
            config[k] = IF k \in DOMAIN cfgFile.data THEN cfgFile.data[k]
                        ELSE DEFAULT_CONFIG[k]
       /\ DOMAIN config = RecognizedKeys
       /\ \A i \in 1..Len(httpLog) : httpLog[i].url = Endpoint(DEFAULT_CONFIG)

(* Reference reading of the citations frame *)

\* the ways to read line l as "[N] url": the digits N, then the URL, an
\* http or https address that runs up to the first blank or the end
RefCitationForms(l) ==
    LET numberEnds == { a \in 2..Len(l) :
                          /\ l[1] = "[" /\ \A k \in 2..a : l[k] \in Digits
                          /\ a < Len(l) /\ l[a + 1] = "]" }
        blankEnds(a) == { b \in (a + 2)..Len(l) :
                            \A k \in (a + 2)..b : l[k] \in Whitespace }
        urlEnds(b) == { c \in (b + 1)..Len(l) :
                          /\ \/ HasAt(l, b + 1, <<"h","t","t","p",":","/","/">>)
                                /\ c >= b + 8
                             \/ HasAt(l, b + 1, <<"h","t","t","p","s",":","/","/">>)
                                /\ c >= b + 9
                          /\ \A k \in (b + 1)..c : l[k] \notin Whitespace
                          /\ c = Len(l) \/ l[c + 1] \in Whitespace }
    IN UNION { UNION { { [number |-> SubSeq(l, 1, a + 1), url |-> SubSeq(l, b + 1, c)] :
                           c \in urlEnds(b) } : b \in blankEnds(a) } : a \in numberEnds }

\* the address names its host properly: square brackets come in pairs
RefHostOf(url) ==
    LET r == Drop(url, Find(url, "/") + 1)
        h == CHOOSE n \in 0..Len(r) :
                /\ \A k \in 1..n : r[k] \notin {"/", "?", "#"}
                /\ n = Len(r) \/ r[n + 1] \in {"/", "?", "#"}
    IN SubSeq(r, 1, h)
RefWellFormedUrl(url) == Contains(RefHostOf(url), "[") = Contains(RefHostOf(url), "]")

\* the first segment of the path of the address: what stands between the
\* slashes that follow the host and the next "/", "?" or "#"
RefFirstSegment(url) ==
    LET r == Drop(url, Find(url, "/") + 1 + Len(RefHostOf(url)))
        s == CHOOSE n \in 0..Len(r) :
                /\ \A k \in 1..n : r[k] = "/"
                /\ n = Len(r) \/ r[n + 1] # "/"
        t == Drop(r, s)
        z == CHOOSE n \in 0..Len(t) :
                /\ \A k \in 1..n : t[k] \notin {"/", "?", "#"}
                /\ n = Len(t) \/ t[n + 1] \in {"/", "?", "#"}
    IN SubSeq(t, 1, z)

\* the shortened form: the domain (the host without "www."), then "/" and
\* the first path segment when there is one; at most 60 characters
RefShortForm(url) ==
    LET d == RemoveWww(RefHostOf(url))
        full == IF RefFirstSegment(url) = <<>> THEN d
                ELSE d \o <<"/">> \o RefFirstSegment(url)
    IN IF Len(full) <= 60 THEN full
       ELSE [i \in 1..60 |-> IF i <= 57 THEN full[i] ELSE "."]

RefIsCitationLine(l) ==
    \E f \in RefCitationForms(l) : RefWellFormedUrl(f.url)
RefIsMarkerLine(l) == StartsWithUnderscores(l)
RefIsBlankLine(l) == \A k \in 1..Len(l) : l[k] \in Whitespace

\* what the frame shows of line l
RefEntry(l) ==
    IF RefIsMarkerLine(l) \/ RefIsBlankLine(l) THEN <<>>
    ELSE IF RefIsCitationLine(l)
    THEN LET f == CHOOSE g \in RefCitationForms(l) : TRUE
         IN <<Span(f.number \o <<" ">>, BoldCyan), Span(RefShortForm(f.url), Link(f.url))>>
    ELSE <<Span(l, Plain)>>

RECURSIVE RefEntries(_)
RefEntries(lines) ==
    IF lines = <<>> THEN <<>> ELSE RefEntry(lines[1]) \o RefEntries(Tail(lines))

IsLineBreak(span) == span = Span(<<"\n">>, Plain)
NotLineBreak(span) == ~IsLineBreak(span)

PageBreaks(c) == Cardinality({ i \in 1..Len(c) : c[i] = PAGE_BREAK })

\* the pages of the file that gave text
PagesWithText == { i \in 1..Len(disk.pages) : disk.pages[i] # <<>> }

\* C25: the content read from a PDF is the texts of the pages that gave
\* text, in page order, with one page break between two of them: k such pages
\* give max(0, k - 1) page breaks, none at the start, at the end or next to
\* another; page_count counts every page.
C25_PdfPagesJoined ==
    pc = "display_query" /\ fileContent.type = "pdf"
    => LET c == fileContent.content
           k == Cardinality(PagesWithText)
       IN /\ IF k = 0 THEN c = <<>>
             ELSE /\ Len(Split(c, PAGE_BREAK)) = k
                  /\ \A n \in 1..k :
                        \E i \in PagesWithText :
                           /\ Cardinality({ j \in PagesWithText : j <= i }) = n
                           /\ Split(c, PAGE_BREAK)[n] = disk.pages[i]
          /\ PageBreaks(c) = IF k = 0 THEN 0 ELSE k - 1
          /\ c # <<>> => c[1] # PAGE_BREAK /\ c[Len(c)] # PAGE_BREAK
          /\ \A i \in 1..(Len(c) - 1) : ~(c[i] = PAGE_BREAK /\ c[i + 1] = PAGE_BREAK)
          /\ fileContent.metadata.page_count = Len(disk.pages)

\* C25 witness: three pages, the second without text: one page break
C25_Witness ==
    /\ pc = "display_query" /\ fileContent.type = "pdf"
    /\ disk.pages = << <<"a">>, <<>>, <<"b">> >>
    /\ fileContent.content = <<"a", PAGE_BREAK, "b">>
    /\ fileContent.metadata.page_count = 3

(* Reference reading of the extension table *)

\* the supported extensions in sorted order, each once
RefSortedExtensions ==
    << <<".","b","m","p">>,
       <<".","c">>,
       <<".","c","f","g">>,
       <<".","c","o","n","f">>,
       <<".","c","p","p">>,
       <<".","c","s","s">>,
       <<".","c","s","v">>,
       <<".","g","i","f">>,
       <<".","g","o">>,
       <<".","h">>,
       <<".","h","t","m","l">>,
       <<".","i","n","i">>,
       <<".","j","a","v","a">>,
       <<".","j","p","e","g">>,
       <<".","j","p","g">>,
       <<".","j","s">>,
       <<".","j","s","o","n">>,
       <<".","j","s","x">>,
       <<".","l","o","g">>,
       <<".","m","d">>,
       <<".","p","d","f">>,
       <<".","p","n","g">>,
       <<".","p","y">>,
       <<".","r","s">>,
       <<".","s","h">>,
       <<".","t","s">>,
       <<".","t","s","x">>,
       <<".","t","x","t">>,
       <<".","w","e","b","p">>,
       <<".","x","m","l">>,
       <<".","y","a","m","l">>,
       <<".","y","m","l">> >>

\* the extension of a path: what follows the last dot of its last component,
\* dot included and in lower case; none when that component has no dot, or
\* only a leading or a trailing one
RefExtension(path) ==
    LET slashes == { i \in 1..Len(path) : path[i] = "/" }
        from == IF slashes = {} THEN 1
                ELSE 1 + CHOOSE i \in slashes : \A j \in slashes : j <= i
        dots == { i \in (from + 1)..(Len(path) - 1) : path[i] = "." }
    IN IF dots = {} THEN <<>>
       ELSE StrLower(SubSeq(path, CHOOSE i \in dots : \A j \in dots : j <= i, Len(path)))

\* C26: read_file on an existing file within the size limit whose extension
\* (in lower case; also when it has none) is not in the extension table
\* raises UnsupportedFileTypeError, whose message lists every supported
\* extension once and in sorted order, and no reader is invoked.
C26_UnsupportedTypeListed ==
    /\ pc # "read_file"
    /\ disk.exists /\ disk.size <= MaxSizeMB * (2 ^ 20)
    /\ \A i \in 1..Len(RefSortedExtensions) :
            RefSortedExtensions[i] # RefExtension(expanduser(parsed.file_path))
    => /\ raised.cls = "UnsupportedFileTypeError"
       /\ Split(raised.msg.supported, ", ") = RefSortedExtensions
       /\ raised.msg.extension = RefExtension(expanduser(parsed.file_path))
       /\ readerCalls = <<>> /\ fileContent = NoFile

\* C26 witness: a file without extension, small enough, is turned down
C26_Witness ==
    /\ pc = "except" /\ parsed.file_path = tk_noext
    /\ disk.exists /\ disk.size = 2 ^ 20 /\ MaxSizeMB = 1
    /\ raised.cls = "UnsupportedFileTypeError" /\ raised.msg.extension = <<>>
    /\ Len(Split(raised.msg.supported, ", ")) = 32
    /\ readerCalls = <<>>

(* Reference reading of the response classification *)

NoCitations == [has |-> FALSE, body |-> <<>>, citations |-> <<>>]

\* s split at its first __CITATIONS__, when it has one
RefSplitAtCitations(s) ==
    IF \E i \in 1..Len(s) : s[i] = CIT
    THEN LET i == CHOOSE n \in 1..Len(s) : s[n] = CIT /\ \A m \in 1..(n - 1) : s[m] # CIT
         IN [has |-> TRUE, body |-> SubSeq(s, 1, i - 1), citations |-> SubSeq(s, i + 1, Len(s))]
    ELSE [NoCitations EXCEPT !.body = s]

\* the (body, citationsList) of a response
RefSplit(resp, show_sources) ==
    IF \E i \in 1..Len(resp) : resp[i] = WCIT
    THEN LET i == CHOOSE n \in 1..Len(resp) :
                     resp[n] = WCIT /\ \A m \in 1..(n - 1) : resp[m] # WCIT
         IN RefSplitAtCitations(IF show_sources THEN SubSeq(resp, i + 1, Len(resp))
                                ELSE SubSeq(resp, 1, i - 1))
    ELSE RefSplitAtCitations(resp)

\* C27 as stated: for every response and show_sources value, the body that
\* display_response renders, and the citations list it renders when
\* show_sources is true, are those of the reference split (surrounding blanks
\* aside): of the chosen segment when __WITH_CITATIONS__ is present, of the
\* whole response otherwise.
C27_RendersReferenceSplit ==
    pc # "display_response"
    => LET ref == RefSplit(response, showArg)
       IN /\ raised = NoExc
          /\ Len(frames) = IF showArg /\ ref.has THEN 2 ELSE 1
          /\ frames[1].kind = "response"
          /\ Strip(frames[1].body) = Strip(ref.body)
          /\ showArg /\ ref.has
             => frames[2].kind = "sources"
                /\ frames[2].citations = Strip(ref.citations)

\* C28 as stated: display_response is total: for every response, whatever
\* the number and order of its markers, and either show_sources value, it
\* raises no error and renders a body frame.
C28_DisplayResponseTotal ==
    pc # "display_response"
    => /\ raised = NoExc
       /\ pc = "returned" /\ ret = 0
       /\ frames # <<>> /\ frames[1].kind = "response"

\* what has to be true for a request to go out
RequestAllowed ==
    /\ HasQueryOrFile
    /\ parsed.file_path # NoPath
       => fileContent # NoFile /\ fileContent.file_path = expanduser(parsed.file_path)
    /\ env = "set"

\* each step of execute_query is entered from the step before it
StepInOrder ==
    /\ pc' = "parse" => pc = "load_config"
    /\ pc' = "check_query" => pc = "parse"
    /\ pc' = "read_file" => pc = "check_query" /\ parsed.file_path # NoPath
    /\ pc' = "display_query"
       => \/ pc = "check_query" /\ parsed.file_path = NoPath
          \/ pc = "read_file"
    /\ pc' = "create_provider" => pc = "display_query"
    /\ pc' = "send" => pc = "create_provider"
    /\ pc' = "request" => pc = "send"
    /\ httpLog' # httpLog => pc = "request"
    /\ pc' = "after_send" => pc \in {"request", "spinner_exit"} /\ httpLog' # <<>>
    /\ pc' = "display_response" => pc = "after_send"

ArgsParsed == pc \notin {"main", "load_config", "parse"} /\ config # NoConfig

\* C30: execute_query returns 2 only when token 0 named an existing regular
\* file when parse ran and the file is gone when read_file checks it; when
\* token 0 names no existing file, no file is attached, token 0 stays with the
\* tokens of the query, nothing fails with FileNotFoundError, and the run
\* goes on to the provider request (given a query, the API key and a
\* supported provider).
C30_NotFoundOnlyAfterParse ==
    /\ pc = "returned" /\ ret = 2
       => /\ Token0IsFile /\ ~disk.exists
          /\ raised.cls = "FileNotFoundError" /\ httpLog = <<>>
    /\ ArgsParsed /\ ~Token0IsFile
       => /\ parsed.file_path = NoPath /\ fileContent = NoFile /\ readerCalls = <<>>
          /\ parsed.query = RefQuery(args)
          /\ raised.cls # "FileNotFoundError" /\ ret # 2
          /\ pc = "returned" /\ parsed.query # <<>> /\ env = "set"
             /\ parsed.provider = Str("perplexity") /\ ~sigint
             => Len(httpLog) = 1

\* C30 witness: the file was there for parse and is gone for read_file
C30_Witness ==
    /\ pc = "returned" /\ ret = 2
    /\ args[1] = tk_file /\ tk_file \in fs /\ ~disk.exists
    /\ parsed.file_path = tk_file

=============================================================================
